---------------------------- MODULE Spec2Model ----------------------------
(***************************************************************************)
(* A model of the typonix-api SEO analysis engine: the target-keyword      *)
(* selector (local-analysis.js), the competitor filter and ranker          *)
(* (online-analysis.js, local-analysis.js) and the analysis pipeline with  *)
(* its status record (process-seo-analysis.js, seo-analysis-status.js,     *)
(* routes/seo.js).                                                         *)
(*                                                                         *)
(* Strings are sequences of one-character strings, so that toLowerCase,    *)
(* split, includes, endsWith and the URL normalisation are computed and    *)
(* not assumed.  Numbers are scaled integers: similarities in tenths,      *)
(* search volumes in hundreds of searches, competition in tenths; scores   *)
(* are exact fractions num/den (the code's doubles round them).            *)
(***************************************************************************)
EXTENDS Integers, Sequences, FiniteSets, TLC

\* JavaScript values of the fields that may hold something else than a number.
Num(n) == [t |-> "num", v |-> n]
null == [t |-> "null", v |-> 0]
undefined == [t |-> "undefined", v |-> 0]
NaN == [t |-> "NaN", v |-> 0]
Infinity == [t |-> "Infinity", v |-> 0]
NegInfinity == [t |-> "-Infinity", v |-> 0]

IsNum(x) == x.t = "num"

\* x || 0 for a numeric field: undefined, null, NaN and 0 give 0.
OrZero(x) == IF IsNum(x) THEN x.v ELSE 0

-----------------------------------------------------------------------------
(* String helpers: String.prototype.toLowerCase, split(/\s+/), trim,       *)
(* includes, startsWith, endsWith, replace.                                *)

LowerChar(c) ==
  CASE c = "A" -> "a" [] c = "B" -> "b" [] c = "C" -> "c" [] c = "D" -> "d"
    [] c = "E" -> "e" [] c = "F" -> "f" [] c = "G" -> "g" [] c = "H" -> "h"
    [] c = "I" -> "i" [] c = "J" -> "j" [] c = "K" -> "k" [] c = "L" -> "l"
    [] c = "M" -> "m" [] c = "N" -> "n" [] c = "O" -> "o" [] c = "P" -> "p"
    [] c = "Q" -> "q" [] c = "R" -> "r" [] c = "S" -> "s" [] c = "T" -> "t"
    [] c = "U" -> "u" [] c = "V" -> "v" [] c = "W" -> "w" [] c = "X" -> "x"
    [] c = "Y" -> "y" [] c = "Z" -> "z" [] OTHER -> c

toLowerCase(s) == [i \in 1..Len(s) |-> LowerChar(s[i])]

IsWhitespace(c) == c \in {" ", "\t", "\n"}

\* s.split(/\s+/): the pieces between maximal whitespace runs; a leading or
\* trailing run leaves an empty piece, and the empty string gives [""].
RECURSIVE SplitFrom(_, _, _, _)
SplitFrom(s, i, cur, acc) ==
  IF i > Len(s) THEN Append(acc, cur)
  ELSE IF IsWhitespace(s[i])
       THEN IF i > 1 /\ IsWhitespace(s[i-1])
            THEN SplitFrom(s, i + 1, cur, acc)
            ELSE SplitFrom(s, i + 1, <<>>, Append(acc, cur))
       ELSE SplitFrom(s, i + 1, Append(cur, s[i]), acc)

splitWhitespace(s) == SplitFrom(s, 1, <<>>, <<>>)

Range(f) == {f[i] : i \in DOMAIN f}

SetMin(S) == CHOOSE x \in S : \A y \in S : x <= y
SetMax(S) == CHOOSE x \in S : \A y \in S : x >= y

\* p occurs in s at position i.
OccursAt(s, p, i) ==
  /\ i >= 1
  /\ i + Len(p) - 1 <= Len(s)
  /\ \A k \in 1..Len(p) : s[i + k - 1] = p[k]

startsWith(s, p) == OccursAt(s, p, 1)
endsWith(s, p) == OccursAt(s, p, Len(s) - Len(p) + 1)

\* s.indexOf(p), 1-based; 0 when p does not occur.
indexOf(s, p) ==
  LET at == {i \in 1..(Len(s) + 1) : OccursAt(s, p, i)}
  IN  IF at = {} THEN 0 ELSE SetMin(at)

includes(s, p) == indexOf(s, p) # 0

\* s.replace(p, r) with a string pattern: only the first occurrence is replaced.
replace(s, p, r) ==
  LET i == indexOf(s, p)
  IN  IF i = 0 THEN s
      ELSE SubSeq(s, 1, i - 1) \o r \o SubSeq(s, i + Len(p), Len(s))

trim(s) ==
  LET kept == {i \in 1..Len(s) : ~IsWhitespace(s[i])}
  IN  IF kept = {} THEN <<>> ELSE SubSeq(s, SetMin(kept), SetMax(kept))

\* s.slice(0, n)
slice(s, n) == SubSeq(s, 1, IF Len(s) < n THEN Len(s) ELSE n)

\* new URL(s).hostname for http(s) URLs: the text between the scheme and the
\* first of / ? #, without a port, lower-cased.  ok is FALSE where the
\* constructor throws: no scheme, an empty host, or a space in the host.
UrlHostname(s) ==
  LET https == <<"h","t","t","p","s",":","/","/">>
      http == <<"h","t","t","p",":","/","/">>
      rest == IF startsWith(s, https) THEN SubSeq(s, 9, Len(s))
              ELSE IF startsWith(s, http) THEN SubSeq(s, 8, Len(s))
              ELSE <<>>
      stops == {i \in 1..Len(rest) : rest[i] \in {"/", "?", "#"}}
      authority == IF stops = {} THEN rest ELSE SubSeq(rest, 1, SetMin(stops) - 1)
      colons == {i \in 1..Len(authority) : authority[i] = ":"}
      host == IF colons = {} THEN authority
              ELSE SubSeq(authority, 1, SetMin(colons) - 1)
  IN  [ok |-> host # <<>> /\ \A i \in 1..Len(host) : ~IsWhitespace(host[i]),
       hostname |-> toLowerCase(host)]

-----------------------------------------------------------------------------
(* The keyword records the intersection analysis stores                    *)
(* (local-analysis.js 343-360, 434-449): the provider's items for one      *)
(* competitor, drawn from a fixed catalogue of responses.                  *)

KeywordData(keyword, similarity, volume, competition) ==
  [keyword |-> keyword, similarityToServices |-> similarity,
   searchVolume |-> volume, competition |-> competition, targeted |-> FALSE]

SharedKeywordData(keyword, volume, competition) ==
  KeywordData(keyword, undefined, volume, competition)

UniqueItems1 ==
  << KeywordData(<<"b","e","s","t"," ","p","l","u","m","b","e","r"," ","n","y","c">>, Num(8), Num(5), Num(3)),
     KeywordData(<<"b","e","s","t"," ","p","l","u","m","b","e","r"," ","n","y","c"," ","a","r","e","a">>, Num(8), Num(5), Num(3)),
     KeywordData(<<"d","o","g"," ","g","r","o","o","m","i","n","g">>, Num(8), Num(5), Num(3)) >>

UniqueItems2 ==
  << KeywordData(<<"a">>, Num(9), Num(12), Num(2)),
     KeywordData(<<"b">>, Num(9), Num(3), Num(9)),
     KeywordData(<<"c">>, Num(7), Num(20), Num(5)),
     KeywordData(<<"d">>, Num(7), Num(1), Num(5)),
     KeywordData(<<"e">>, Num(5), Num(8), Num(1)),
     KeywordData(<<"f">>, null, Num(9), Num(3)),
     KeywordData(<<"g">>, Num(4), Num(8), undefined),
     KeywordData(<<"h">>, Num(3), undefined, Num(4)),
     KeywordData(<<"i">>, Num(2), Num(2), Num(10)),
     KeywordData(<<"j">>, Num(1), Num(15), Num(6)),
     KeywordData(<<"k">>, Num(0), Num(6), Num(7)),
     KeywordData(<<"n">>, Num(8), Num(6), Num(4)) >>

UniqueItems3 ==
  << KeywordData(<<"l">>, Num(6), Num(4), Num(3)),
     KeywordData(<<"m">>, Num(6), Num(4), Num(3)),
     KeywordData(<<"n">>, Num(8), Num(10), Num(8)),
     KeywordData(<<"o">>, Num(2), Num(18), Num(2)),
     KeywordData(<<"p">>, Num(9), Num(1), Num(6)),
     KeywordData(<<"q">>, Num(3), Num(7), Num(1)),
     KeywordData(<<"r">>, Num(5), Num(13), Num(9)),
     KeywordData(<<"s">>, Num(1), Num(2), Num(4)),
     KeywordData(<<"t">>, Num(7), Num(5), Num(5)),
     KeywordData(<<"u">>, Num(4), Num(16), Num(7)),
     KeywordData(<<"v">>, Num(10), Num(3), Num(10)),
     KeywordData(<<"w">>, Num(-3), Num(11), Num(2)),
     KeywordData(<<"D","o","g"," "," ","G","r","o","o","m","i","n","g">>, Num(9), Num(6), Num(2)),
     KeywordData(<<"b","e","s","t"," ","p","l","u","m","b","e","r">>, Num(7), Num(4), Num(4)),
     KeywordData(<<"a"," ","b"," ","c"," ","d"," ","e"," ","f"," ","g"," ","x">>, Num(6), Num(9), Num(5)),
     KeywordData(<<"a"," ","b"," ","c"," ","d"," ","e"," ","f"," ","g"," ","y"," ","z">>, Num(6), Num(9), Num(5)),
     KeywordData(<<"d","o","g"," ","g","r","o","o","m","i","n","g">>, NaN, Num(2), Num(1)),
     KeywordData(<<"p","e","t"," ","h","o","t","e","l">>, null, Num(30), Num(1)),
     KeywordData(<<"b","e","s","t"," ","p","l","u","m","b","e","r"," ","n","y","c">>, Num(10), Num(0), Num(0)) >>

UniqueItems4 ==
  << KeywordData(<<"d","o","g"," ","g","r","o","o","m","i","n","g">>, Num(9), Num(0), undefined),
     KeywordData(<<"b","e","s","t"," ","p","l","u","m","b","e","r">>, Num(2), undefined, Num(0)),
     KeywordData(<<"d","o","g"," ","g","r","o","o","m","i","n","g">>, Num(1), Num(0), Num(0)) >>

SharedItems1 ==
  << SharedKeywordData(<<"d","o","g"," ","g","r","o","o","m","i","n","g">>, Num(5), Num(3)),
     SharedKeywordData(<<"b","e","s","t"," ","p","l","u","m","b","e","r"," ","n","y","c">>, Num(7), Num(2)),
     SharedKeywordData(<<"D","o","g"," ","G","r","o","o","m","i","n","g">>, Num(2), Num(2)),
     SharedKeywordData(<<"a">>, Num(1), Num(1)),
     SharedKeywordData(<<"p","e","t"," ","h","o","t","e","l">>, Num(30), Num(1)) >>


UniqueItems(d) ==
  CASE d = 1 -> UniqueItems1 [] d = 2 -> UniqueItems2 [] d = 3 -> UniqueItems3
    [] OTHER -> UniqueItems4

SharedItems(d) == SharedItems1

UniqueResponses == 1..4
SharedResponses == 1..1

\* The greatest value and limit given to normalize on its own.
MaxNormalized == 5

\* The competitors whose intersection documents are stored.
MaxCompetitors == 2
Competitors == 1..MaxCompetitors

\* Every keyword text of the catalogue, and its word set, tabulated once.
KeywordTexts ==
  UNION {{UniqueItems(d)[i].keyword : i \in DOMAIN UniqueItems(d)} : d \in UniqueResponses}
  \cup UNION {{SharedItems(d)[i].keyword : i \in DOMAIN SharedItems(d)} : d \in SharedResponses}

WordSetTable == [k \in KeywordTexts |-> Range(splitWhitespace(toLowerCase(k)))]

-----------------------------------------------------------------------------
(* Keyword generation utilities (local-analysis.js 501-521).               *)

\* A fraction num/den with den > 0, or NaN.
Frac(n, d) == [nan |-> FALSE, num |-> n, den |-> d]
FracNaN == [nan |-> TRUE, num |-> 0, den |-> 1]

\* Math.min(...xs) and Math.max(...xs): Infinity and -Infinity on no arguments.
MathMin(xs) ==
  IF xs = {} THEN Infinity ELSE Num(CHOOSE m \in xs : \A x \in xs : m <= x)
MathMax(xs) ==
  IF xs = {} THEN NegInfinity ELSE Num(CHOOSE m \in xs : \A x \in xs : m >= x)

\* normalize without the test of line 503: 0/0 when max === min.
normalizeUnguarded(value, min, max) ==
  IF IsNum(min) /\ IsNum(max) /\ max # min
  THEN Frac(value - min.v, max.v - min.v)
  ELSE FracNaN

\* normalize(value, min, max): 0 when max === min, else (value-min)/(max-min).
\* With min = Infinity and max = -Infinity the quotient is -Infinity/-Infinity.
normalize(value, min, max) ==
  IF max = min THEN Frac(0, 1)
  ELSE IF IsNum(min) /\ IsNum(max) THEN Frac(value - min.v, max.v - min.v)
  ELSE FracNaN

\* new Set(keyword.toLowerCase().split(/\s+/))
WordSet(keyword) == WordSetTable[keyword]

\* calculateWordOverlap: intersection.size / union.size, as the pair <<i, u>>.
calculateWordOverlap(keyword1, keyword2) ==
  LET words1 == WordSet(keyword1)
      words2 == WordSet(keyword2)
  IN  <<Cardinality(words1 \cap words2), Cardinality(words1 \cup words2)>>

\* threshold = 0.7 as the fraction ThresholdNum/ThresholdDen.
ThresholdNum == 7
ThresholdDen == 10

\* isDiverse with > in place of >=.
isDiverseBroken(keyword, selectedKeywords) ==
  \A i \in 1..Len(selectedKeywords) :
    LET overlap == calculateWordOverlap(keyword, selectedKeywords[i])
    IN  ~(overlap[1] * ThresholdDen > ThresholdNum * overlap[2])

\* isDiverse: false as soon as one selected keyword overlaps >= threshold.
isDiverse(keyword, selectedKeywords) ==
  \A i \in 1..Len(selectedKeywords) :
    LET overlap == calculateWordOverlap(keyword, selectedKeywords[i])
    IN  ~(overlap[1] * ThresholdDen >= ThresholdNum * overlap[2])

-----------------------------------------------------------------------------
(* generateTargetKeywords (local-analysis.js 526-637).  A stored document  *)
(* is null (no document) or a record with a keywords list; documents are   *)
(* visited in document-id order, 1..MaxCompetitors.                        *)

NoDoc == [exists |-> FALSE, keywords |-> <<>>]
Doc(kws) == [exists |-> TRUE, keywords |-> kws]

\* Lines 535-553: the pool of keywords that carry a similarity score.
RECURSIVE CollectKeywords(_, _, _)
CollectKeywords(kws, source, i) ==
  IF i > Len(kws) THEN <<>>
  ELSE LET kw == kws[i]
           rest == CollectKeywords(kws, source, i + 1)
       IN  IF kw.similarityToServices # null /\ kw.similarityToServices # undefined
           THEN <<[keyword |-> kw.keyword,
                   similarityToServices |-> kw.similarityToServices,
                   searchVolume |-> OrZero(kw.searchVolume),
                   competition |-> OrZero(kw.competition),
                   source |-> source]>> \o rest
           ELSE rest

RECURSIVE AllKeywords(_, _)
AllKeywords(unique, c) ==
  IF c > Len(unique) THEN <<>>
  ELSE (IF unique[c].exists THEN CollectKeywords(unique[c].keywords, c, 1) ELSE <<>>)
       \o AllKeywords(unique, c + 1)

\* Lines 570-582: compositeScore = 0.6 sim + 0.3 volumeScore + 0.1 competitionScore,
\* with sim in tenths; NaN when a normalised part is NaN.
CompositeScore(kw, minVolume, maxVolume, minCompetition, maxCompetition) ==
  LET similarityScore == OrZero(kw.similarityToServices)
      volumeScore == normalize(kw.searchVolume, minVolume, maxVolume)
      competitionNorm == normalize(kw.competition, minCompetition, maxCompetition)
  IN  IF volumeScore.nan \/ competitionNorm.nan THEN FracNaN
      ELSE Frac(6 * similarityScore * volumeScore.den * competitionNorm.den
                  + 30 * volumeScore.num * competitionNorm.den
                  + 10 * (competitionNorm.den - competitionNorm.num) * volumeScore.den,
                100 * volumeScore.den * competitionNorm.den)

ScoreKeywords(allKeywords) ==
  LET searchVolumes ==
        {v \in {allKeywords[i].searchVolume : i \in DOMAIN allKeywords} : v > 0}
      minVolume == MathMin(searchVolumes)
      maxVolume == MathMax(searchVolumes)
      competitions ==
        {c \in {allKeywords[i].competition : i \in DOMAIN allKeywords} : c > 0}
      minCompetition == MathMin(competitions)
      maxCompetition == MathMax(competitions)
  IN  [i \in DOMAIN allKeywords |->
         [keyword |-> allKeywords[i].keyword,
          source |-> allKeywords[i].source,
          pos |-> i,
          compositeScore |-> CompositeScore(allKeywords[i], minVolume, maxVolume,
                                            minCompetition, maxCompetition)]]

\* The comparator with its operands swapped: a.compositeScore - b.compositeScore.
ComparatorAscending(a, b) ==
  /\ ~a.compositeScore.nan
  /\ ~b.compositeScore.nan
  /\ a.compositeScore.num * b.compositeScore.den > b.compositeScore.num * a.compositeScore.den

\* The comparator (a, b) => b.compositeScore - a.compositeScore is positive;
\* a NaN difference counts as 0 in Array.prototype.sort.
ComparatorPositive(a, b) ==
  /\ ~a.compositeScore.nan
  /\ ~b.compositeScore.nan
  /\ b.compositeScore.num * a.compositeScore.den > a.compositeScore.num * b.compositeScore.den

\* Array.prototype.sort is stable: x goes before the first element it beats.
RECURSIVE InsertSorted(_, _, _)
InsertSorted(sorted, x, i) ==
  IF i > Len(sorted) THEN Append(sorted, x)
  ELSE IF ComparatorPositive(sorted[i], x)
       THEN SubSeq(sorted, 1, i - 1) \o <<x>> \o SubSeq(sorted, i, Len(sorted))
       ELSE InsertSorted(sorted, x, i + 1)

RECURSIVE SortByScore(_, _, _)
SortByScore(xs, i, acc) ==
  IF i > Len(xs) THEN acc ELSE SortByScore(xs, i + 1, InsertSorted(acc, xs[i], 1))

\* The number of target keywords (line 588).
MaxTargetKeywords == 20

\* Lines 586-592: the greedy walk; picked holds the positions accepted so far.
RECURSIVE SelectDiverse(_, _, _, _)
SelectDiverse(scoredKeywords, i, selectedKeywords, picked) ==
  IF i > Len(scoredKeywords) \/ Len(selectedKeywords) >= MaxTargetKeywords
  THEN [selectedKeywords |-> selectedKeywords, picked |-> picked]
  ELSE IF isDiverse(scoredKeywords[i].keyword, selectedKeywords)
       THEN SelectDiverse(scoredKeywords, i + 1,
                          Append(selectedKeywords, scoredKeywords[i].keyword),
                          Append(picked, i))
       ELSE SelectDiverse(scoredKeywords, i + 1, selectedKeywords, picked)

\* Lines 612-617 and 626-631: mark the selected keywords of one document.
MarkTargeted(doc, selectedKeywords) ==
  IF ~doc.exists THEN doc
  ELSE [doc EXCEPT !.keywords =
          [i \in DOMAIN doc.keywords |->
             IF doc.keywords[i].keyword \in Range(selectedKeywords)
             THEN [doc.keywords[i] EXCEPT !.targeted = TRUE]
             ELSE doc.keywords[i]]]

-----------------------------------------------------------------------------
(* Competitor discovery, filtering and ranking (online-analysis.js,        *)
(* local-analysis.js 54-278).  The provider's answers, the pages and the   *)
(* embeddings come from a fixed catalogue.                                 *)

\* excludedDomains of isExcludedDomain (online-analysis.js 17-38).
excludedDomainsOnline ==
  << <<"w","i","k","i","p","e","d","i","a",".","o","r","g">>,  \* wikipedia.org
     <<"f","a","c","e","b","o","o","k",".","c","o","m">>,  \* facebook.com
     <<"y","e","l","p",".","c","o","m">>,  \* yelp.com
     <<"y","e","l","l","o","w","p","a","g","e","s",".","c","o","m">>,  \* yellowpages.com
     <<"t","r","i","p","a","d","v","i","s","o","r",".","c","o","m">>,  \* tripadvisor.com
     <<"a","m","a","z","o","n",".","c","o","m">>,  \* amazon.com
     <<"e","b","a","y",".","c","o","m">>,  \* ebay.com
     <<"l","i","n","k","e","d","i","n",".","c","o","m">>,  \* linkedin.com
     <<"y","o","u","t","u","b","e",".","c","o","m">>,  \* youtube.com
     <<"r","e","d","d","i","t",".","c","o","m">>,  \* reddit.com
     <<"q","u","o","r","a",".","c","o","m">>,  \* quora.com
     <<"m","e","d","i","u","m",".","c","o","m">>,  \* medium.com
     <<"t","w","i","t","t","e","r",".","c","o","m">>,  \* twitter.com
     <<"x",".","c","o","m">>,  \* x.com
     <<"i","n","s","t","a","g","r","a","m",".","c","o","m">>,  \* instagram.com
     <<"p","i","n","t","e","r","e","s","t",".","c","o","m">>,  \* pinterest.com
     <<"t","i","k","t","o","k",".","c","o","m">>,  \* tiktok.com
     <<"i","n","d","e","e","d",".","c","o","m">>,  \* indeed.com
     <<"g","l","a","s","s","d","o","o","r",".","c","o","m">>,  \* glassdoor.com
     <<"b","b","b",".","o","r","g">> >>  \* bbb.org

\* excludedDomains of processLocalBusinessSEO (local-analysis.js 92-95).
excludedDomainsLocal ==
  << <<"f","a","c","e","b","o","o","k",".","c","o","m">>,  \* facebook.com
     <<"i","n","s","t","a","g","r","a","m",".","c","o","m">>,  \* instagram.com
     <<"t","w","i","t","t","e","r",".","c","o","m">>,  \* twitter.com
     <<"x",".","c","o","m">>,  \* x.com
     <<"l","i","n","k","e","d","i","n",".","c","o","m">>,  \* linkedin.com
     <<"y","o","u","t","u","b","e",".","c","o","m">>,  \* youtube.com
     <<"t","i","k","t","o","k",".","c","o","m">>,  \* tiktok.com
     <<"p","i","n","t","e","r","e","s","t",".","c","o","m">>,  \* pinterest.com
     <<"s","n","a","p","c","h","a","t",".","c","o","m">> >>  \* snapchat.com

\* The strings of the catalogue as character sequences.
sHttps == <<"h","t","t","p","s",":","/","/">>  \* https://
sHttp == <<"h","t","t","p",":","/","/">>  \* http://
sWww == <<"w","w","w",".">>  \* www.
sGov == <<".","g","o","v">>  \* .gov
sEdu == <<".","e","d","u">>  \* .edu
sUnknown == <<"U","n","k","n","o","w","n">>  \* Unknown
dAlpha == <<"a","l","p","h","a",".","i","o">>  \* alpha.io
dBeta == <<"b","e","t","a",".","i","o">>  \* beta.io
dGamma == <<"g","a","m","m","a",".","i","o">>  \* gamma.io
dDelta == <<"d","e","l","t","a",".","i","o">>  \* delta.io
dAcmePlumbing == <<"a","c","m","e","p","l","u","m","b","i","n","g",".","c","o","m">>  \* acmeplumbing.com
dFacebookPage == <<"w","w","w",".","f","a","c","e","b","o","o","k",".","c","o","m","/","s","o","m","e","p","a","g","e">>  \* www.facebook.com/somepage
dAgencyGov == <<"a","g","e","n","c","y",".","g","o","v">>  \* agency.gov
dNetflix == <<"n","e","t","f","l","i","x",".","c","o","m">>  \* netflix.com
dStateEdu == <<"S","t","a","t","e",".","E","D","U">>  \* State.EDU
dBigShop == <<"b","i","g","s","h","o","p",".","c","o","m">>  \* bigshop.com
dManyKw == <<"m","a","n","y","k","w",".","c","o","m">>  \* manykw.com
dEdge == <<"e","d","g","e",".","i","o">>  \* edge.io
uGammaUpper == <<"G","a","m","m","a",".","I","O">>  \* Gamma.IO
uGamma == <<"h","t","t","p","s",":","/","/","w","w","w",".","g","a","m","m","a",".","i","o","/">>  \* https://www.gamma.io/
uAlphaPadded == <<" "," ","A","l","p","h","a",".","i","o"," ">>  \*   Alpha.io 
uNotAUrl == <<"n","o","t"," ","a"," ","u","r","l">>  \* not a url
uE8About == <<"h","t","t","p",":","/","/","e","8",".","i","o","/","a","b","o","u","t">>  \* http://e8.io/about
uYelp == <<"y","e","l","p",".","c","o","m">>  \* yelp.com
uAcme == <<"h","t","t","p","s",":","/","/","w","w","w",".","a","c","m","e","-","p","l","u","m","b","i","n","g",".","i","o","/","h","o","m","e">>  \* https://www.acme-plumbing.io/home
uAcmeBare == <<"a","c","m","e","-","p","l","u","m","b","i","n","g",".","i","o">>  \* acme-plumbing.io
uFacebookL2 == <<"h","t","t","p","s",":","/","/","w","w","w",".","f","a","c","e","b","o","o","k",".","c","o","m","/","l","2">>  \* https://www.facebook.com/l2
uL1Upper == <<"H","T","T","P","S",":","/","/","L","1",".","I","O">>  \* HTTPS://L1.IO
tPlumbing == <<"p","l","u","m","b","i","n","g">>  \* plumbing
tDrainRepair == <<"d","r","a","i","n"," ","r","e","p","a","i","r">>  \* drain repair
tBlank == <<" "," ","\n">>  \*   \n
tJoes == <<"J","o","e","'","s"," ","P","l","u","m","b","i","n","g">>  \* Joe's Plumbing
tPlaceId == <<"C","h","I","J","1">>  \* ChIJ1
dE1 == <<"e","1",".","i","o">>  \* e1.io
dL2 == <<"l","2",".","i","o">>  \* l2.io
dL3 == <<"l","3",".","i","o">>  \* l3.io
tPlumb == <<"p","l","u","m","b">>  \* plumb
tUS == <<"U","S">>  \* US
tPlumber == <<"p","l","u","m","b","e","r">>  \* plumber

DigitChar == [d \in 0..9 |-> CASE d = 0 -> "0" [] d = 1 -> "1" [] d = 2 -> "2"
                               [] d = 3 -> "3" [] d = 4 -> "4" [] d = 5 -> "5"
                               [] d = 6 -> "6" [] d = 7 -> "7" [] d = 8 -> "8"
                               [] OTHER -> "9"]

Decimal(i) == IF i < 10 THEN <<DigitChar[i]>> ELSE <<DigitChar[i \div 10], DigitChar[i % 10]>>

dE(i) == <<"e">> \o Decimal(i) \o <<".", "i", "o">>              \* e<i>.io
uL(i) == sHttps \o <<"l">> \o Decimal(i) \o <<".", "i", "o">>    \* https://l<i>.io

\* An item of the Competitors Domain API: item.domain (<<>> when missing or
\* empty), item.metrics?.organic.etv and .count.
CompetitorItem(domain, etv, count) == [domain |-> domain, etv |-> etv, count |-> count]

ExampleItems ==
  << CompetitorItem(dAlpha, Num(500), Num(40)),
     CompetitorItem(dBeta, Num(400), Num(30)),
     CompetitorItem(dGamma, Num(300), Num(20)),
     CompetitorItem(dDelta, undefined, undefined) >>

FilterItems ==
  << CompetitorItem(dAcmePlumbing, Num(1200), Num(300)),
     CompetitorItem(dFacebookPage, Num(10), Num(10)),
     CompetitorItem(dAgencyGov, Num(10), Num(10)),
     CompetitorItem(dNetflix, Num(10), Num(10)),
     CompetitorItem(dStateEdu, Num(10), Num(10)),
     CompetitorItem(dBigShop, Num(100001), Num(10)),
     CompetitorItem(dManyKw, Num(10), Num(50001)),
     CompetitorItem(dEdge, Num(100000), Num(50000)),
     CompetitorItem(<<>>, Num(10), Num(10)),
     CompetitorItem(uGammaUpper, null, NaN),
     CompetitorItem(dAlpha, undefined, Num(0)),
     CompetitorItem(dAcmePlumbing, Num(1200), Num(300)) >>

ManyCount == 12
ManyItems == [i \in 1..ManyCount |-> CompetitorItem(dE(i), Num(100 * i), Num(i))]

\* A response of callCompetitorsDomain (part_000 56-102): the call throws on
\* a non-success status; tasks[0].result may be null; else result[0].items.
ApiError == [kind |-> "error", items |-> <<>>]
NoResult == [kind |-> "noResult", items |-> <<>>]
Items(xs) == [kind |-> "items", items |-> xs]

CompetitorsResponses ==
  {ApiError, NoResult, Items(<<>>), Items(ExampleItems), Items(FilterItems), Items(ManyItems)}

\* An item of the Maps API: item.type, item.url, item.title, item.place_id
\* (<<>> when missing).
MapsItem(type, url, title, placeId) ==
  [type |-> type, url |-> url, title |-> title, place_id |-> placeId]

MapsItems1 ==
  << MapsItem("maps_search", uL(1), tJoes, tPlaceId),
     MapsItem("maps_search", uFacebookL2, tJoes, tPlaceId),
     MapsItem("maps_search", uL1Upper, tJoes, <<>>),
     MapsItem("maps_search", <<>>, tJoes, tPlaceId),
     MapsItem("maps_paid_item", uL(3), tJoes, tPlaceId),
     MapsItem("maps_search", uL(4), <<>>, <<>>),
     MapsItem("maps_search", uGamma, tJoes, tPlaceId) >>

ManyMapsCount == 22
MapsItems2 == [i \in 1..ManyMapsCount |-> MapsItem("maps_search", uL(i), tJoes, tPlaceId)]

MapsResponses == {ApiError, NoResult, Items(<<>>), Items(MapsItems1), Items(MapsItems2)}

ItemsOf(response) == IF response.kind = "items" THEN response.items ELSE <<>>

\* The comparison with an exact domain match instead of a substring match.
isExcludedDomainExact(domain) ==
  LET domainLower == toLowerCase(domain)
  IN  \/ \E i \in DOMAIN excludedDomainsOnline : domainLower = excludedDomainsOnline[i]
      \/ endsWith(domainLower, sGov)
      \/ endsWith(domainLower, sEdu)

\* isExcludedDomain (online-analysis.js 16-53).
isExcludedDomain(domain) ==
  LET domainLower == toLowerCase(domain)
  IN  \/ \E i \in DOMAIN excludedDomainsOnline : includes(domainLower, excludedDomainsOnline[i])
      \/ endsWith(domainLower, sGov)
      \/ endsWith(domainLower, sEdu)

\* The limits of line 160.
MaxEtv == 100000
MaxCount == 50000

\* Lines 147-170: the filter predicate of one item.
KeepsCompetitor(item) ==
  /\ item.domain # <<>>
  /\ ~isExcludedDomain(item.domain)
  /\ ~(OrZero(item.etv) > MaxEtv \/ OrZero(item.count) > MaxCount)

\* The filter verdict of every item of the catalogue, computed once.
CatalogueItems ==
  UNION {Range(r.items) : r \in CompetitorsResponses}

KeepsTable == [item \in CatalogueItems |-> KeepsCompetitor(item)]

FilterCompetitors(competitorItems) ==
  LET Keeps(item) == KeepsTable[item]
  IN  SelectSeq(competitorItems, Keeps)

\* Lines 88-110 of local-analysis.js: maps_search items with a url that holds
\* no excluded name, first occurrence of each lower-cased url.
KeepsBusiness(item) ==
  /\ item.type = "maps_search"
  /\ item.url # <<>>
  /\ ~\E i \in DOMAIN excludedDomainsLocal :
        includes(toLowerCase(item.url), excludedDomainsLocal[i])

CatalogueBusinesses ==
  UNION {Range(r.items) : r \in MapsResponses}

KeepsBusinessTable == [item \in CatalogueBusinesses |-> KeepsBusiness(item)]

RECURSIVE RemoveDuplicates(_, _, _)
RemoveDuplicates(items, i, seenUrls) ==
  IF i > Len(items) THEN <<>>
  ELSE LET url == toLowerCase(items[i].url)
       IN  IF url \in seenUrls THEN RemoveDuplicates(items, i + 1, seenUrls)
           ELSE <<items[i]>> \o RemoveDuplicates(items, i + 1, seenUrls \cup {url})

UniqueBusinesses(items) ==
  LET Keeps(item) == KeepsBusinessTable[item]
  IN  RemoveDuplicates(SelectSeq(items, Keeps), 1, {})

-----------------------------------------------------------------------------
(* The services text (online-analysis.js 196-204, 216).  A service entry   *)
(* is a bare string or an object with optional name, serviceName, title    *)
(* and description (<<>> when missing or empty).                           *)

ServiceString(text) ==
  [isString |-> TRUE, text |-> text, name |-> <<>>, serviceName |-> <<>>,
   title |-> <<>>, description |-> <<>>]
ServiceObject(name, serviceName, title, description) ==
  [isString |-> FALSE, text |-> <<>>, name |-> name, serviceName |-> serviceName,
   title |-> title, description |-> description]

ServiceTexts(service) ==
  (IF ~service.isString /\ service.name # <<>> THEN <<service.name>> ELSE <<>>)
  \o (IF ~service.isString /\ service.serviceName # <<>> THEN <<service.serviceName>> ELSE <<>>)
  \o (IF ~service.isString /\ service.title # <<>> THEN <<service.title>> ELSE <<>>)
  \o (IF ~service.isString /\ service.description # <<>> THEN <<service.description>> ELSE <<>>)
  \o (IF service.isString THEN <<service.text>> ELSE <<>>)

RECURSIVE ExtractServices(_, _)
ExtractServices(servicesArray, i) ==
  IF i > Len(servicesArray) THEN <<>>
  ELSE ServiceTexts(servicesArray[i]) \o ExtractServices(servicesArray, i + 1)

\* services.join(' ')
RECURSIVE join(_, _)
join(texts, i) ==
  IF i > Len(texts) THEN <<>>
  ELSE IF i = Len(texts) THEN texts[i]
  ELSE texts[i] \o <<" ">> \o join(texts, i + 1)

ServicesCatalogue ==
  { <<>>,
    << ServiceObject(<<>>, <<>>, <<>>, <<>>) >>,
    << ServiceObject(tPlumbing, <<>>, <<>>, tDrainRepair), ServiceString(tPlumbing) >> }

-----------------------------------------------------------------------------
(* Pages and embeddings (part_001 15-36, 55-93, 101-113).  A world fixes   *)
(* what the scraper returns for every address.                             *)

Worlds == {"up", "gammaDown", "blank", "down"}

NullText == [isNull |-> TRUE, text |-> <<>>]
Text(t) == [isNull |-> FALSE, text |-> t]

\* scrapeWebsiteWithJina(url): null when the request fails or is refused,
\* else the body, which may be empty or blank.
scrapeWebsiteWithJina(world, url) ==
  LET urlLower == toLowerCase(url)
  IN  CASE world = "down" -> NullText
        [] world = "gammaDown" /\ (\/ includes(urlLower, dGamma)
                                   \/ includes(urlLower, dE1)
                                   \/ includes(urlLower, dL2)) -> NullText
        [] world = "blank" /\ includes(urlLower, dGamma) -> Text(tBlank)
        [] world = "blank" /\ (includes(urlLower, dBeta) \/ includes(urlLower, dL3)) -> Text(<<>>)
        [] OTHER -> Text(url)

\* !!scrapedText && scrapedText.trim().length > 0
IsScraped(scrapedText) ==
  /\ ~scrapedText.isNull
  /\ scrapedText.text # <<>>
  /\ Len(trim(scrapedText.text)) > 0

\* The outcomes of one scraping request: an answer with a success status,
\* an answer with another status, no answer (fetch rejects), or an answer
\* whose body cannot be read (response.text() rejects).
FetchOutcomes == {"ok", "status", "network", "body"}
FetchBodies == {<<>>, tBlank, tPlumbing, tDrainRepair}
FetchUrls == {sHttps \o dAlpha, sHttps \o dBeta, sHttps \o dGamma, uAcme}

\* part_001 17-31: the try block; thrown tells that it ended in an exception.
ScrapeAttempt(outcome, body) ==
  CASE outcome = "network" -> [thrown |-> TRUE, value |-> NullText]
    [] outcome = "status" -> [thrown |-> FALSE, value |-> NullText]
    [] outcome = "body" -> [thrown |-> TRUE, value |-> NullText]
    [] OTHER -> [thrown |-> FALSE, value |-> Text(body)]

\* The try block without the catch of lines 32-35.
ScrapeRequestUncaught(outcome, body) ==
  LET attempt == ScrapeAttempt(outcome, body)
  IN  [raised |-> attempt.thrown, value |-> attempt.value]

\* part_001 15-36: scrapeWebsiteWithJina for one outcome of its request.
ScrapeRequest(outcome, body) ==
  LET attempt == ScrapeAttempt(outcome, body)
  IN  IF attempt.thrown THEN [raised |-> FALSE, value |-> NullText]
      ELSE [raised |-> FALSE, value |-> attempt.value]

\* What the ranking makes of one page: online-analysis.js 228-238 and
\* 264-272, local-analysis.js 175-190.  An exception of the scraper would
\* reject the Promise.all of the ranking.
ScrapeResult(scrape) ==
  [aborted |-> scrape.raised,
   scraped |-> ~scrape.raised /\ IsScraped(scrape.value),
   similarity |-> IF scrape.raised THEN "none"
                  ELSE IF IsScraped(scrape.value) THEN "computed" ELSE "zero"]

\* The input limit of getEmbedding (part_001 58-59).
EmbeddingInputLimit == 8000

DigitValue(c) ==
  CASE c = "1" -> 1 [] c = "2" -> 2 [] c = "3" -> 3 [] c = "4" -> 4 [] c = "5" -> 5
    [] c = "6" -> 6 [] c = "7" -> 7 [] c = "8" -> 8 [] c = "9" -> 9 [] OTHER -> 0

RECURSIVE DigitSum(_, _)
DigitSum(s, i) == IF i > Len(s) THEN 0 ELSE DigitValue(s[i]) + DigitSum(s, i + 1)

\* The embedding service, a fixed function of the truncated text.
getEmbedding(input) ==
  LET processedInput == slice(input, EmbeddingInputLimit)
      lower == toLowerCase(processedInput)
  IN  CASE includes(lower, tPlumb) -> <<1, 0, 0, 0>>
        [] includes(lower, dAlpha) -> <<9, 3, 3, 1>>
        [] includes(lower, dBeta) -> <<8, 6, 0, 0>>
        [] includes(lower, dGamma) -> <<7, 7, 1, 1>>
        [] includes(lower, dDelta) -> <<6, 8, 0, 0>>
        [] includes(lower, dEdge) -> <<-3, 4, 0, 0>>
        [] OTHER -> <<DigitSum(lower, 1) + 1, 5, 0, 0>>

\* dotProduct / normA, without the square roots and without normB.
cosineSimilarityByNormA(vecA, vecB) ==
  LET Sum[i \in 0..Len(vecA)] == IF i = 0 THEN 0 ELSE Sum[i - 1] + vecA[i] * vecB[i]
      Norm[i \in 0..Len(vecA)] == IF i = 0 THEN 0 ELSE Norm[i - 1] + vecA[i] * vecA[i]
  IN  [dotProduct |-> Sum[Len(vecA)], normA |-> Norm[Len(vecA)],
       normB |-> Norm[Len(vecA)]]

RECURSIVE SumProducts(_, _, _)
SumProducts(vecA, vecB, i) ==
  IF i > Len(vecA) THEN 0 ELSE vecA[i] * vecB[i] + SumProducts(vecA, vecB, i + 1)

\* cosineSimilarity: dotProduct / (sqrt(normA) * sqrt(normB)), kept as its
\* three exact parts.
cosineSimilarity(vecA, vecB) ==
  [dotProduct |-> SumProducts(vecA, vecB, 1),
   normA |-> SumProducts(vecA, vecA, 1),
   normB |-> SumProducts(vecB, vecB, 1)]

SimilarityIsNaN(s) == s.normA * s.normB = 0

\* Line 112 in IEEE-754 doubles for two parallel vectors, where the exact
\* quotient is 1 or -1: the pairs <<normA, normB>> (up to 12) for which
\* |dotProduct| / (Math.sqrt(normA) * Math.sqrt(normB)) is the double just
\* below 1 (0.9999999999999998 for <<2, 2>>) and those for which it is the
\* double just above 1 (1.0000000000000002 for <<3, 3>>); it is exactly 1
\* for every other such pair.
RoundsBelowOne ==
  {<<2, 2>>, <<2, 8>>, <<8, 2>>, <<5, 5>>, <<7, 7>>, <<8, 8>>, <<10, 10>>}
RoundsAboveOne ==
  {<<3, 3>>, <<3, 12>>, <<12, 3>>, <<6, 6>>, <<12, 12>>}

\* How the magnitude of the computed similarity compares with 1.
MagnitudeAgainstOne(s) ==
  CASE SimilarityIsNaN(s) -> "nan"
    [] s.dotProduct * s.dotProduct < s.normA * s.normB -> "below"
    [] <<s.normA, s.normB>> \in RoundsBelowOne -> "below"
    [] <<s.normA, s.normB>> \in RoundsAboveOne -> "above"
    [] OTHER -> "equal"

SignedSquare(s) == (IF s.dotProduct < 0 THEN -1 ELSE 1) * s.dotProduct * s.dotProduct

\* a > b for two similarities that are numbers.
SimilarityGreater(a, b) ==
  /\ ~SimilarityIsNaN(a)
  /\ ~SimilarityIsNaN(b)
  /\ SignedSquare(a) * b.normA * b.normB > SignedSquare(b) * a.normA * a.normB

\* The comparator (a, b) => b.similarity - a.similarity is positive.
SimilarityPositive(a, b) == SimilarityGreater(b.similarity, a.similarity)

\* The similarity each caller of cosineSimilarity records for one item: the
\* ranked entry of the domain-based variant (online-analysis.js 254-262),
\* the one of the location-based variant (local-analysis.js 182-190) and the
\* stored keyword record (local-analysis.js 422-438).  The value is recorded
\* as computed.
SimilarityCallers == {"online", "local", "intersection"}

RecordedSimilarity(caller, userEmbedding, itemEmbedding) ==
  [field |-> IF caller = "intersection" THEN "similarityToServices" ELSE "similarity",
   similarity |-> cosineSimilarity(userEmbedding, itemEmbedding)]

\* The embeddings the similarity is studied on.
EmbeddingDim == 3
Components == {-1, 0, 1}
Embeddings == [1..EmbeddingDim -> Components]

IsZeroVector(vec) == \A i \in DOMAIN vec : vec[i] = 0
Negated(vec) == [i \in DOMAIN vec |-> 0 - vec[i]]

RECURSIVE InsertBySimilarity(_, _, _)
InsertBySimilarity(sorted, x, i) ==
  IF i > Len(sorted) THEN Append(sorted, x)
  ELSE IF SimilarityPositive(sorted[i], x)
       THEN SubSeq(sorted, 1, i - 1) \o <<x>> \o SubSeq(sorted, i, Len(sorted))
       ELSE InsertBySimilarity(sorted, x, i + 1)

RECURSIVE SortBySimilarity(_, _, _)
SortBySimilarity(xs, i, acc) ==
  IF i > Len(xs) THEN acc
  ELSE SortBySimilarity(xs, i + 1, InsertBySimilarity(acc, xs[i], 1))

\* Every address the ranker can fetch: https://<domain> for a discovered
\* domain (online-analysis.js 229), item.url for a business (local 176).
CatalogueUrls ==
  {sHttps \o item.domain : item \in CatalogueItems} \cup {item.url : item \in CatalogueBusinesses}

\* What fetching and embedding one address gives in one world, computed once.
PageTable ==
  [world \in Worlds |->
     [url \in CatalogueUrls |->
        LET scrapedText == scrapeWebsiteWithJina(world, url)
        IN  [scrapedText |-> scrapedText,
             scraped |-> IsScraped(scrapedText),
             embedding |-> IF IsScraped(scrapedText)
                           THEN getEmbedding(scrapedText.text) ELSE <<>>]]]

\* How the embedding service behaves during one ranking: it answers, or it
\* rejects the services text, or it rejects the page texts, or it rejects the
\* text of the first scraped page only.
EmbeddingOutcomes == {"up", "failsOnServices", "failsOnPages", "failsOnOnePage"}

\* A call of getEmbedding for page texts is rejected.  The domain-based
\* ranking sends every page text in one call (online-analysis.js 252) and
\* the location-based one calls per page inside one Promise.all
\* (local-analysis.js 173-181), which rejects with its first rejection.
PageEmbeddingRejected(embedding) == embedding \in {"failsOnPages", "failsOnOnePage"}

\* getEmbedding with an array (part_001 55-93).  The provider answers a
\* batch with one entry per input, each carrying the index of its input, in
\* an order of its own; or the request is refused (line 73), or the answer
\* has no data array (line 80).
MaxBatch == 3
BatchTexts == {dAlpha, dBeta, dGamma}
Batches == UNION {[1..n -> BatchTexts] : n \in 0..MaxBatch}

ResponseOrders(n) ==
  {f \in [1..n -> 1..n] : \A i, j \in 1..n : f[i] = f[j] => i = j}

EmbeddingEntry(index, embedding) == [index |-> index, embedding |-> embedding]

\* data.data of the answer: entry k is the one of input order[k].
ProviderData(processedInput, order) ==
  [k \in DOMAIN order |->
     EmbeddingEntry(order[k] - 1, getEmbedding(processedInput[order[k]]))]

\* The comparator with its operands swapped: b.index - a.index.
IndexComparatorDescending(a, b) == b.index - a.index > 0

\* Line 87: the comparator (a, b) => a.index - b.index is positive.
IndexComparatorPositive(a, b) == a.index - b.index > 0

RECURSIVE InsertByIndex(_, _, _)
InsertByIndex(sorted, x, i) ==
  IF i > Len(sorted) THEN Append(sorted, x)
  ELSE IF IndexComparatorPositive(sorted[i], x)
       THEN SubSeq(sorted, 1, i - 1) \o <<x>> \o SubSeq(sorted, i, Len(sorted))
       ELSE InsertByIndex(sorted, x, i + 1)

RECURSIVE SortByIndex(_, _, _)
SortByIndex(xs, i, acc) ==
  IF i > Len(xs) THEN acc
  ELSE SortByIndex(xs, i + 1, InsertByIndex(acc, xs[i], 1))

\* Lines 73-88: what the batch call gives for one answer of the provider.
getEmbeddingBatch(input, response) ==
  LET processedInput == [i \in DOMAIN input |-> slice(input[i], EmbeddingInputLimit)]
      data == ProviderData(processedInput, response.order)
      sorted == SortByIndex(data, 1, <<>>)
  IN  CASE response.kind = "refused" ->
             [pc |-> "thrown", error |-> "OpenAI API error", data |-> <<>>,
              result |-> <<>>]
        [] response.kind = "malformed" ->
             [pc |-> "thrown", error |-> "Invalid response format from OpenAI API",
              data |-> <<>>, result |-> <<>>]
        [] OTHER ->
             [pc |-> "returned", error |-> "", data |-> data,
              result |-> [k \in DOMAIN sorted |-> sorted[k].embedding]]

BatchResponses(input) ==
  {[kind |-> "refused", order |-> <<>>], [kind |-> "malformed", order |-> <<>>]}
    \cup {[kind |-> "data", order |-> order] : order \in ResponseOrders(Len(input))}

-----------------------------------------------------------------------------
(* The user-selected competitors (online-analysis.js 295-308).             *)

ManySelectedCount == 11
ManySelected == [i \in 1..ManySelectedCount |-> dE(i)]

CompetitorLists == { <<>>, <<uGamma>>, <<uNotAUrl, uAlphaPadded, dDelta, uYelp>> }
StoredCompetitorLists == CompetitorLists \cup {ManySelected, <<uE8About, uGamma>>}

\* Lines 106-109, 299-302: trim and put https:// in front when no scheme.
NormalizeUrl(url) ==
  LET trimmed == trim(url)
  IN  IF ~startsWith(trimmed, sHttp) /\ ~startsWith(trimmed, sHttps)
      THEN sHttps \o trimmed ELSE trimmed

\* Line 111: the domain queried for a user-supplied competitor; ok is FALSE
\* when new URL throws.
CompetitorDomain(competitorUrl) ==
  LET parsed == UrlHostname(NormalizeUrl(competitorUrl))
  IN  [ok |-> parsed.ok, domain |-> replace(parsed.hostname, sWww, <<>>)]

\* Lines 296-307: the domain a user-selected competitor is compared by.
SelectedDomain(url) ==
  LET parsed == UrlHostname(NormalizeUrl(url))
  IN  IF parsed.ok THEN toLowerCase(replace(parsed.hostname, sWww, <<>>))
      ELSE toLowerCase(url)

CompetitorUrls ==
  UNION {Range(l) : l \in StoredCompetitorLists}
    \cup {item.domain : item \in CatalogueItems}
    \cup {item.url : item \in CatalogueBusinesses}

CompetitorDomainTable == [url \in CompetitorUrls |-> CompetitorDomain(url)]
SelectedDomainTable == [url \in CompetitorUrls |-> SelectedDomain(url)]

UserSelectedDomains(userSelectedCompetitors) ==
  {SelectedDomainTable[userSelectedCompetitors[i]] : i \in DOMAIN userSelectedCompetitors}

-----------------------------------------------------------------------------
(* The ranking of the domain-based variant (online-analysis.js 208-343).   *)
(* An entry carries pos, its place in the filtered list, for reference.    *)

TopNOnline == 10

ZeroSimilarity == [dotProduct |-> 0, normA |-> 1, normB |-> 1]

\* Lines 210-213, 349-352, 358-361: the first entries, domain and metrics only.
UnrankedOnline(filteredCompetitors, topN) ==
  [i \in 1..(IF Len(filteredCompetitors) < topN THEN Len(filteredCompetitors) ELSE topN) |->
     [domain |-> filteredCompetitors[i].domain,
      etv |-> filteredCompetitors[i].etv,
      count |-> filteredCompetitors[i].count,
      hasSimilarity |-> FALSE, similarity |-> ZeroSimilarity,
      scrapedTextLength |-> 0, userSelected |-> "absent", pos |-> i]]

\* Line 329 without the guaranteed entries taken off.
RemainingSlotsAll(guaranteedCount, topN) == topN

\* Line 329: Math.max(0, 10 - guaranteedCompetitors.length)
RemainingSlots(guaranteedCount, topN) ==
  IF topN - guaranteedCount > 0 THEN topN - guaranteedCount ELSE 0

\* Lines 310-343: user-selected entries first, then the discovered ones that
\* fit; sorted holds the scraped entries by similarity.
FinalCompetitors(sortedBySimilarity, userSelectedDomains, topN) ==
  LET IsSelected(item) == toLowerCase(item.domain) \in userSelectedDomains
      IsDiscovered(item) == ~IsSelected(item)
      guaranteedCompetitors == SelectSeq(sortedBySimilarity, IsSelected)
      discoveredCompetitors == SelectSeq(sortedBySimilarity, IsDiscovered)
      remainingSlots == RemainingSlots(Len(guaranteedCompetitors), topN)
      taken == IF Len(discoveredCompetitors) < remainingSlots
               THEN Len(discoveredCompetitors) ELSE remainingSlots
  IN  [i \in 1..Len(guaranteedCompetitors) |->
         [guaranteedCompetitors[i] EXCEPT !.userSelected = "true"]]
      \o [i \in 1..taken |->
            [discoveredCompetitors[i] EXCEPT !.userSelected = "false"]]

\* Lines 227-289: the scraped entries with their similarity, in filter order
\* and then sorted; entries that were not scraped are filtered out.
ScrapedOnline(filteredCompetitors, userEmbedding, world) ==
  LET Page(i) == PageTable[world][sHttps \o filteredCompetitors[i].domain]
      Analysed(i) ==
        [domain |-> filteredCompetitors[i].domain,
         etv |-> filteredCompetitors[i].etv,
         count |-> filteredCompetitors[i].count,
         hasSimilarity |-> TRUE,
         similarity |-> cosineSimilarity(userEmbedding, Page(i).embedding),
         scrapedTextLength |-> Len(Page(i).scrapedText.text),
         userSelected |-> "absent", pos |-> i]
      RECURSIVE Valid(_)
      Valid(i) ==
        IF i > Len(filteredCompetitors) THEN <<>>
        ELSE (IF Page(i).scraped THEN <<Analysed(i)>> ELSE <<>>) \o Valid(i + 1)
  IN  Valid(1)

\* Lines 177-362: topCompetitors of processOnlineBusinessSEO.  mode tells the
\* branch taken: ranked, or the unranked list of lines 210, 349 or 358.
TopCompetitorsOnline(filteredCompetitors, uidGiven, userDoc, world, embedding) ==
  LET unranked == UnrankedOnline(filteredCompetitors, TopNOnline)
      services == IF userDoc.exists THEN ExtractServices(userDoc.services, 1) ELSE <<>>
      validScrapes == ScrapedOnline(filteredCompetitors,
                                    getEmbedding(join(services, 1)), world)
  IN  CASE ~uidGiven -> [mode |-> "noUid", topCompetitors |-> unranked]
        [] uidGiven /\ ~userDoc.exists ->
             [mode |-> "error", topCompetitors |-> unranked]
        [] uidGiven /\ userDoc.exists /\ services = <<>> ->
             [mode |-> "noServices", topCompetitors |-> unranked]
        [] uidGiven /\ userDoc.exists /\ services # <<>>
             /\ (\/ embedding = "failsOnServices"
                 \/ PageEmbeddingRejected(embedding) /\ validScrapes # <<>>) ->
             [mode |-> "error", topCompetitors |-> unranked]
        [] OTHER ->
             [mode |-> "ranked",
              topCompetitors |->
                FinalCompetitors(SortBySimilarity(validScrapes, 1, <<>>),
                                 UserSelectedDomains(userDoc.competitors),
                                 TopNOnline)]

-----------------------------------------------------------------------------
(* The ranking of the location-based variant (local-analysis.js 117-250).  *)

TopNLocal == 20

\* Lines 147-158, 224-235, 238-249: the first entries without similarity.
\* removeUndefined drops the fields that are undefined.
BusinessEntry(item, i) ==
  [title |-> IF item.title # <<>> THEN item.title ELSE sUnknown,
   placeId |-> item.place_id,
   url |-> item.url,
   hasSimilarity |-> FALSE, similarity |-> ZeroSimilarity,
   scrapedTextLength |-> 0, pos |-> i]

UnrankedLocal(uniqueBusinesses, topN) ==
  [i \in 1..(IF Len(uniqueBusinesses) < topN THEN Len(uniqueBusinesses) ELSE topN) |->
     BusinessEntry(uniqueBusinesses[i], i)]

\* Lines 168-200: every business is fetched (in batches of 20) and, when it
\* was scraped, embedded and scored; the unscraped ones are filtered out.
ScrapedLocal(uniqueBusinesses, userEmbedding, world) ==
  LET Page(i) == PageTable[world][uniqueBusinesses[i].url]
      Analysed(i) ==
        [BusinessEntry(uniqueBusinesses[i], i) EXCEPT
           !.hasSimilarity = TRUE,
           !.similarity = cosineSimilarity(userEmbedding, Page(i).embedding),
           !.scrapedTextLength = Len(Page(i).scrapedText.text)]
      RECURSIVE Valid(_)
      Valid(i) ==
        IF i > Len(uniqueBusinesses) THEN <<>>
        ELSE (IF Page(i).scraped THEN <<Analysed(i)>> ELSE <<>>) \o Valid(i + 1)
  IN  Valid(1)

\* Lines 117-250: topCompetitors of processLocalBusinessSEO.
TopCompetitorsLocal(uniqueBusinesses, uidGiven, userDoc, world, embedding) ==
  LET unranked == UnrankedLocal(uniqueBusinesses, TopNLocal)
      services == IF userDoc.exists THEN ExtractServices(userDoc.services, 1) ELSE <<>>
      scraped == ScrapedLocal(uniqueBusinesses, getEmbedding(join(services, 1)), world)
      sortedBySimilarity == SortBySimilarity(scraped, 1, <<>>)
  IN  CASE ~uidGiven -> [mode |-> "noUid", topCompetitors |-> unranked]
        [] uidGiven /\ ~userDoc.exists ->
             [mode |-> "error", topCompetitors |-> unranked]
        [] uidGiven /\ userDoc.exists /\ services = <<>> ->
             [mode |-> "noServices", topCompetitors |-> unranked]
        [] uidGiven /\ userDoc.exists /\ services # <<>>
             /\ (\/ embedding = "failsOnServices"
                 \/ PageEmbeddingRejected(embedding) /\ scraped # <<>>) ->
             [mode |-> "error", topCompetitors |-> unranked]
        [] OTHER ->
             [mode |-> "ranked",
              topCompetitors |->
                SubSeq(sortedBySimilarity, 1,
                       IF Len(sortedBySimilarity) < TopNLocal
                       THEN Len(sortedBySimilarity) ELSE TopNLocal)]

-----------------------------------------------------------------------------
(* The business fields the analysis validates (online-analysis.js 62-80,   *)
(* local-analysis.js 57-66); <<>> and undefined stand for a missing field. *)


Business(targetCountryCode, websiteUrl, latitude, longitude, businessTypeIdentifier) ==
  [targetCountryCode |-> targetCountryCode, websiteUrl |-> websiteUrl,
   latitude |-> latitude, longitude |-> longitude,
   businessTypeIdentifier |-> businessTypeIdentifier]

FullBusiness == Business(tUS, uAcme, Num(407), Num(-740), tPlumber)

OnlineBusinesses ==
  { FullBusiness,
    Business(<<>>, uAcme, undefined, undefined, <<>>),
    Business(tUS, <<>>, undefined, undefined, <<>>),
    Business(tUS, uAcmeBare, undefined, undefined, <<>>) }

LocalBusinesses ==
  { FullBusiness,
    Business(<<>>, <<>>, Num(407), Num(-740), tPlumber),
    Business(tUS, uAcme, undefined, Num(-740), tPlumber),
    Business(tUS, uAcme, Num(407), Num(0), tPlumber),
    Business(tUS, uAcme, Num(407), Num(-740), <<>>) }

\* !x for a numeric field: undefined, null, NaN and 0 are falsy.
Falsy(x) == OrZero(x) = 0

\* The user document users/{uid}.  seoAnalysisStatus and seoAnalysisError are
\* "" and the two timestamps "unset" while the field is not set.
UserDoc(exists, onboardingCompleted, businessType, business, services, competitors) ==
  [exists |-> exists,
   onboardingCompleted |-> onboardingCompleted,
   businessType |-> businessType,
   business |-> business,
   services |-> services,
   competitors |-> competitors,
   seoAnalysisStatus |-> "",
   seoAnalysisStartedAt |-> "unset",
   seoAnalysisCompletedAt |-> "unset",
   seoAnalysisError |-> "",
   hasResults |-> FALSE,
   seoAnalysisResults |-> <<>>]

NoUserDoc == UserDoc(FALSE, FALSE, "", FullBusiness, <<>>, <<>>)

\* The argument userData of one analysis call.
UserData(businessType, business, competitors) ==
  [businessType |-> businessType, business |-> business, competitors |-> competitors]

-----------------------------------------------------------------------------
(* The status store (seo-analysis-status.js).  A timestamp is kept as the  *)
(* run it was taken in: "current" for the latest run started, "earlier"    *)
(* for a run before it, "unset" while the field is absent.                 *)

Aged(t) == IF t = "unset" THEN "unset" ELSE "earlier"

\* The user document as a later run finds it: its timestamps are older.
AgedDoc(doc) ==
  [doc EXCEPT !.seoAnalysisStartedAt = Aged(@), !.seoAnalysisCompletedAt = Aged(@)]

\* updateSEOAnalysisStatus(uid, status, error), lines 14-34.  update() is
\* rejected when the document does not exist; error is stored only when it
\* is truthy, and no field is ever removed.
updateSEOAnalysisStatus(doc, status, error) ==
  IF ~doc.exists THEN [stored |-> FALSE, doc |-> doc]
  ELSE [stored |-> TRUE,
        doc |-> [doc EXCEPT
                   !.seoAnalysisStatus = status,
                   !.seoAnalysisStartedAt = IF status = "processing" THEN "current" ELSE @,
                   !.seoAnalysisCompletedAt =
                      IF status \in {"completed", "failed"} THEN "current" ELSE @,
                   !.seoAnalysisError = IF error # "" THEN error ELSE @]]

\* getSEOAnalysisStatus(uid), lines 41-56, as GET /seo/status answers it
\* (routes/seo.js 21-53): found is FALSE for the 404 answer.
getSEOAnalysisStatus(doc) ==
  [found |-> doc.exists,
   status |-> IF doc.seoAnalysisStatus = "" THEN "idle" ELSE doc.seoAnalysisStatus,
   startedAt |-> doc.seoAnalysisStartedAt,
   completedAt |-> doc.seoAnalysisCompletedAt,
   error |-> doc.seoAnalysisError]

-----------------------------------------------------------------------------
(* One run of processSEOAnalysis (process-seo-analysis.js 11-232).  writes *)
(* is the list of status updates the run sent to the store, raised the     *)
(* message of its first hard failure ("" while there is none), ran the     *)
(* steps that were executed and caught the steps whose error was caught.   *)
(* other tells whether a second run of the same user, started while this   *)
(* one was in progress, is running or has ended.                           *)

RunIdle ==
  [pc |-> "idle", writes |-> <<>>, raised |-> "", ran |-> {}, caught |-> {},
   other |-> "none"]

StatusWrite(status, error, stored) ==
  [status |-> status, error |-> error, stored |-> stored]

\* A status 'failed' is sent with a message (lines 20, 28, 224-228) and the
\* run ends raising.
Fail(r, doc, message) ==
  LET w == updateSEOAnalysisStatus(doc, "failed", message)
  IN  [run |-> [r EXCEPT !.pc = "done",
                         !.raised = IF @ = "" THEN message ELSE @,
                         !.writes = Append(@, StatusWrite("failed", message, w.stored))],
       user |-> w.doc]

\* A step of the run was executed.
Ran(r, step, pc) == [r EXCEPT !.pc = pc, !.ran = @ \cup {step}]

\* A catch that logs the error of an enrichment step and throws it again.
CaughtAndRaised(r, step, pc) ==
  [r EXCEPT !.pc = "done", !.ran = @ \cup {step}, !.raised = step]

\* The catch of an enrichment step (lines 146-148, 152-155, 172-175,
\* 210-213): the error is logged and the run goes on at pc.
Caught(r, step, pc) ==
  [r EXCEPT !.pc = pc, !.ran = @ \cup {step}, !.caught = @ \cup {step}]

\* [...new Set(xs)]: the first occurrence of every element.
RECURSIVE Unique(_, _, _)
Unique(xs, i, seen) ==
  IF i > Len(xs) THEN <<>>
  ELSE IF xs[i] \in seen THEN Unique(xs, i + 1, seen)
  ELSE <<xs[i]>> \o Unique(xs, i + 1, seen \cup {xs[i]})

\* Lines 68-101: the urls of allCompetitors.
AllCompetitors(userData, topCompetitors) ==
  IF userData.businessType = "local"
  THEN userData.competitors \o [i \in DOMAIN topCompetitors |-> topCompetitors[i].url]
  ELSE [i \in DOMAIN topCompetitors |-> sHttps \o topCompetitors[i].domain]

\* Lines 113-137: the competitors array after the run's competitors are
\* merged into it.
MergedCompetitors(userData, topCompetitors) ==
  LET Truthy(url) == url # <<>>
      found == IF userData.businessType = "local"
               THEN SelectSeq([i \in DOMAIN topCompetitors |-> topCompetitors[i].url],
                              Truthy)
               ELSE [i \in DOMAIN topCompetitors |-> topCompetitors[i].domain]
  IN  Unique(userData.competitors \o found, 1, {})

\* local-analysis.js 323: the document id of one competitor; ok is FALSE
\* when new URL throws, which skips the competitor (lines 493-495).
IntersectionDomain(url) ==
  LET parsed == UrlHostname(url)
  IN  [ok |-> parsed.ok, domain |-> replace(parsed.hostname, sWww, <<>>)]

IntersectionDomainTable ==
  [url \in CatalogueUrls \cup CompetitorUrls |-> IntersectionDomain(url)]

\* The competitors for which the intersection provider has keywords, in
\* document-id order; it reports no keyword for any other domain.
DomainsWithKeywords == <<dGamma, dAlpha, dBeta, dDelta>>

\* What the provider answers for one competitor during one run: 0 when the
\* calls fail, else the unique keywords it reports.
IntersectionOutcomes == {0, 1}

-----------------------------------------------------------------------------
(* Keyword ideas (keyword-ideas.js 97-143, 224-266): the provider's items  *)
(* are transformed, scored and categorized.  cpc is kept in tenths, so the *)
(* limits 5, 2, 1 and 0.5 of lines 132-135 are 50, 20, 10 and 5.           *)

kwSeo == <<"s","e","o">>
kwSeoTools == <<"s","e","o"," ","t","o","o","l","s">>
kwLongTail == <<"b","e","s","t"," ","s","e","o"," ","t","o","o","l"," ","f","r","e","e">>

\* An item of the Keyword Ideas API; a missing field is undefined and a
\* missing intent is "".
IdeaItem(keyword, search_volume, keyword_difficulty, cpc, main_intent) ==
  [keyword |-> keyword, search_volume |-> search_volume,
   keyword_difficulty |-> keyword_difficulty, cpc |-> cpc, main_intent |-> main_intent]

\* Lines 100-113: the cleaner format; pos is the place in the list.
KeywordIdea(item, pos) ==
  [keyword |-> item.keyword,
   search_volume |-> OrZero(item.search_volume),
   cpc |-> OrZero(item.cpc),
   search_intent |-> IF item.main_intent = "" THEN "unknown" ELSE item.main_intent,
   difficulty |-> IF OrZero(item.keyword_difficulty) = 0 THEN 50
                  ELSE OrZero(item.keyword_difficulty),
   opportunity_score |-> 0,
   targeted |-> FALSE,
   pos |-> pos]

\* Lines 119-123 with the limits of two classes exchanged.
VolumeScoreSwapped(kw) ==
  IF kw.search_volume >= 10000 THEN 40
  ELSE IF kw.search_volume >= 5000 THEN 20
  ELSE IF kw.search_volume >= 1000 THEN 30
  ELSE IF kw.search_volume >= 500 THEN 10
  ELSE 5

\* Lines 119-123.
VolumeScore(kw) ==
  IF kw.search_volume >= 10000 THEN 40
  ELSE IF kw.search_volume >= 5000 THEN 30
  ELSE IF kw.search_volume >= 1000 THEN 20
  ELSE IF kw.search_volume >= 500 THEN 10
  ELSE 5

\* Lines 126-130: kw.difficulty || 50.
DifficultyScore(kw) ==
  LET difficulty == IF kw.difficulty = 0 THEN 50 ELSE kw.difficulty
  IN  IF difficulty < 30 THEN 30
      ELSE IF difficulty < 50 THEN 20
      ELSE IF difficulty < 70 THEN 10
      ELSE 5

\* Lines 132-136.
CpcScore(kw) ==
  IF kw.cpc >= 50 THEN 20
  ELSE IF kw.cpc >= 20 THEN 15
  ELSE IF kw.cpc >= 10 THEN 10
  ELSE IF kw.cpc >= 5 THEN 5
  ELSE 0

\* Lines 138-142 with the points of 'transactional' left out.
IntentScoreFlat(kw) ==
  IF kw.search_intent = "commercial" THEN 8
  ELSE IF kw.search_intent = "navigational" THEN 5
  ELSE 3

\* Lines 138-142.
IntentScore(kw) ==
  IF kw.search_intent = "transactional" THEN 10
  ELSE IF kw.search_intent = "commercial" THEN 8
  ELSE IF kw.search_intent = "navigational" THEN 5
  ELSE 3

\* Lines 116-144: the score of one keyword.
OpportunityScore(kw) ==
  VolumeScore(kw) + DifficultyScore(kw) + CpcScore(kw) + IntentScore(kw)

ScoreIdeas(keywordIdeas) ==
  [i \in DOMAIN keywordIdeas |->
     [keywordIdeas[i] EXCEPT !.opportunity_score = OpportunityScore(keywordIdeas[i])]]

\* k.keyword.split(' ').length: one more than the number of spaces.
SplitLength(keyword) == Cardinality({i \in DOMAIN keyword : keyword[i] = " "}) + 1

\* The cap of every bucket (lines 228-264).
MaxBucket == 50

\* slice(0, 50) left out.
SliceBucketAll(xs) == xs

\* slice(0, 50)
SliceBucket(xs) == SubSeq(xs, 1, IF Len(xs) < MaxBucket THEN Len(xs) ELSE MaxBucket)

\* sort((a, b) => b.key - a.key), stable: an entry goes after the entries
\* with a greater key and after the earlier entries with its own key.
PlaceByKey(xs, i) ==
  Cardinality({j \in DOMAIN xs :
                 xs[j].key - xs[i].key > 0 \/ (xs[j].key = xs[i].key /\ j < i)}) + 1

SortByKey(xs) ==
  [p \in DOMAIN xs |-> xs[CHOOSE i \in DOMAIN xs : PlaceByKey(xs, i) = p]]

\* filter(...).sort(...).slice(0, 50) for one bucket: qualifies and key are
\* given per position of the list.
Bucket(keywords, qualifies, key) ==
  LET kept == SelectSeq([i \in DOMAIN keywords |->
                           [key |-> key[i], keep |-> qualifies[i], k |-> keywords[i]]],
                        LAMBDA e : e.keep)
      sorted == SortByKey(kept)
      sliced == SliceBucket(sorted)
  IN  [i \in DOMAIN sliced |-> sliced[i].k]

\* categorizeKeywords(keywords), lines 224-266.
categorizeKeywords(keywords) ==
  LET D == DOMAIN keywords
      difficulty(k) == IF k.difficulty = 0 THEN 50 ELSE k.difficulty
  IN  [high_priority_opportunities |->
         Bucket(keywords,
                [i \in D |-> keywords[i].opportunity_score >= 70
                               /\ keywords[i].search_volume >= 1000],
                [i \in D |-> keywords[i].opportunity_score]),
       high_volume_opportunities |->
         Bucket(keywords,
                [i \in D |-> keywords[i].search_volume >= 5000],
                [i \in D |-> keywords[i].search_volume]),
       commercial_opportunities |->
         Bucket(keywords,
                [i \in D |-> keywords[i].search_intent \in {"commercial", "transactional"}],
                [i \in D |-> keywords[i].opportunity_score]),
       low_competition_opportunities |->
         Bucket(keywords,
                [i \in D |-> difficulty(keywords[i]) < 30
                               /\ keywords[i].search_volume >= 500],
                [i \in D |-> keywords[i].search_volume]),
       high_value_opportunities |->
         Bucket(keywords,
                [i \in D |-> keywords[i].cpc >= 10 /\ keywords[i].search_volume >= 500],
                [i \in D |-> keywords[i].cpc * keywords[i].search_volume]),
       content_opportunities |->
         Bucket(keywords,
                [i \in D |-> keywords[i].search_intent = "informational"
                               /\ keywords[i].search_volume >= 500],
                [i \in D |-> keywords[i].search_volume]),
       quick_win_opportunities |->
         Bucket(keywords,
                [i \in D |-> difficulty(keywords[i]) < 40
                               /\ keywords[i].search_volume >= 1000
                               /\ keywords[i].search_volume < 5000],
                [i \in D |-> keywords[i].opportunity_score]),
       long_tail_opportunities |->
         Bucket(keywords,
                [i \in D |-> SplitLength(keywords[i].keyword) >= 4
                               /\ keywords[i].search_volume >= 100
                               /\ keywords[i].search_volume < 1000],
                [i \in D |-> keywords[i].search_volume])]

\* The values of the fields of an item around the limits of the classes.
IdeaVolumes ==
  {undefined, Num(100), Num(499), Num(500), Num(999), Num(1000), Num(4999),
   Num(5000), Num(6000), Num(9999), Num(10000), Num(12000)}
IdeaDifficulties ==
  {undefined, Num(0), Num(20), Num(29), Num(30), Num(39), Num(40), Num(49),
   Num(50), Num(69), Num(70), Num(100)}
IdeaCpcs ==
  {undefined, Num(4), Num(5), Num(9), Num(10), Num(19), Num(20), Num(49),
   Num(50), Num(60)}
IdeaIntents == {"transactional", "commercial", "navigational", "informational", ""}

\* A list longer than the cap in which every keyword qualifies for several
\* buckets, in no order of volume or score.
ManyIdeasCount == 53
ManyIdeas ==
  [i \in 1..ManyIdeasCount |->
     IdeaItem(kwSeoTools, Num(5000 + 100 * ((i * 7) % 13)),
              Num(20 + 10 * (i % 3)), Num(10 * (i % 4)),
              IF i % 2 = 0 THEN "commercial" ELSE "informational")]

\* A short list with keywords of several buckets.
MixedIdeas ==
  << IdeaItem(kwSeoTools, Num(6000), Num(45), Num(12), "commercial"),
     IdeaItem(kwLongTail, Num(700), Num(25), Num(4), "informational"),
     IdeaItem(kwSeo, Num(12000), Num(20), Num(60), "transactional"),
     IdeaItem(kwSeoTools, Num(2000), Num(35), Num(25), "navigational"),
     IdeaItem(kwLongTail, Num(6000), Num(25), Num(12), "commercial"),
     IdeaItem(kwSeo, Num(300), undefined, undefined, "") >>

IdeaLists ==
  { <<IdeaItem(kwSeo, v, d, c, t)>> :
      v \in IdeaVolumes, d \in IdeaDifficulties, c \in IdeaCpcs, t \in IdeaIntents }
    \cup {<<>>, ManyIdeas, MixedIdeas}

\* Lines 73-143: what generateKeywordIdeas computes from one answer of the
\* provider; the request is refused (line 73) or gives the items.
generateKeywordIdeas(response) ==
  LET keywordIdeas == ScoreIdeas([i \in DOMAIN response.items |->
                                    KeywordIdea(response.items[i], i)])
  IN  IF response.kind = "error"
      THEN [pc |-> "thrown", keywordIdeas |-> <<>>,
            top_opportunities |-> categorizeKeywords(<<>>)]
      ELSE [pc |-> "returned", keywordIdeas |-> keywordIdeas,
            top_opportunities |-> categorizeKeywords(keywordIdeas)]

VARIABLES
  targetKeywords,   \* users/{uid}.targetKeywords
  sharedDocs,       \* users/{uid}/intersections/shared/websites/{competitor}
  uniqueDocs,       \* users/{uid}/intersections/unique/websites/{competitor}
  gtk,              \* the locals of the latest generateTargetKeywords call
  user,             \* the document users/{uid}
  rk,               \* the locals of the competitor analysis call
  run,              \* the run of processSEOAnalysis in progress, or the last one
  pure              \* the call of a utility function under study and its result

targetVars == <<targetKeywords, sharedDocs, uniqueDocs, gtk>>
vars == <<targetKeywords, sharedDocs, uniqueDocs, gtk, user, rk, run, pure>>

\* The similarity scoring of the unique keywords of one competitor
\* (local-analysis.js 392-450).  A keyword is a number of its own, its
\* embedding a vector of its own, and the similarity a value computed from
\* the vector.
ChunkSize == 2000
MaxChunks == 3

\* validKeywords of n keywords, no two alike and in no order.
ValidKeywords(n) == [i \in 1..n |-> (i * 7) % 9973]

KeywordVector(keyword) == [t |-> "vector", v |-> keyword]
VectorSimilarity(vector) == Num(vector.v % 11)

\* validKeywords.slice(i, i + chunkSize), i counted from 0.
ChunkAt(validKeywords, i) ==
  SubSeq(validKeywords, i + 1,
         IF i + ChunkSize < Len(validKeywords) THEN i + ChunkSize ELSE Len(validKeywords))

\* Line 415: the provider answers one vector per keyword of the chunk.
ChunkEmbeddings(chunk) == [j \in 1..Len(chunk) |-> KeywordVector(chunk[j])]

\* The catch of line 418 pushing a single null.
FailedChunkEmbeddingsOne(chunk) == <<null>>

\* Line 418: Array(chunk.length).fill(null).
FailedChunkEmbeddings(chunk) == [j \in 1..Len(chunk) |-> null]

\* Lines 422-432: the score of the keyword at place index (from 1); a place
\* beyond allEmbeddings is undefined, on which cosineSimilarity throws and
\* the catch of line 429 leaves null.
SimilarityScore(allEmbeddings, index) ==
  LET embedding == IF index \in DOMAIN allEmbeddings THEN allEmbeddings[index]
                   ELSE undefined
  IN  IF embedding = null \/ embedding = undefined THEN null
      ELSE VectorSimilarity(embedding)

\* Lines 422-449: the keyword records, keyword and score only.
KeywordsWithSimilarity(validKeywords, allEmbeddings) ==
  [index \in 1..Len(validKeywords) |->
     [keyword |-> validKeywords[index],
      similarityToServices |-> SimilarityScore(allEmbeddings, index)]]

\* No utility function is under study.
NoCall == [op |-> "none"]

-----------------------------------------------------------------------------
(* The intersection documents and generateTargetKeywords as actions.       *)

GtkIdle == [ran |-> FALSE, allKeywords |-> <<>>, scoredKeywords |-> <<>>,
            picked |-> <<>>, selectedKeywords |-> <<>>]

\* Lines 355-357, 445-447 with a comparison that ignores the case.
WithExistingTargetsIgnoringCase(items, existingTargetKeywords) ==
  [i \in DOMAIN items |->
     IF toLowerCase(items[i].keyword) \in
          {toLowerCase(existingTargetKeywords[j]) : j \in DOMAIN existingTargetKeywords}
     THEN [items[i] EXCEPT !.targeted = TRUE]
     ELSE items[i]]

\* Lines 355-357, 445-447: targeted is set on the keywords the user already targets.
WithExistingTargets(items, existingTargetKeywords) ==
  [i \in DOMAIN items |->
     IF items[i].keyword \in Range(existingTargetKeywords)
     THEN [items[i] EXCEPT !.targeted = TRUE]
     ELSE items[i]]

\* Lines 338-368: the shared document of one competitor is written.
StoreSharedDoc(c, d) ==
  /\ ~gtk.ran
  /\ sharedDocs' = [sharedDocs EXCEPT
                      ![c] = Doc(WithExistingTargets(SharedItems(d), targetKeywords))]
  /\ gtk' = GtkIdle
  /\ UNCHANGED <<targetKeywords, uniqueDocs>>

\* Lines 474-488: the unique document of one competitor is written.
StoreUniqueDoc(c, d) ==
  /\ ~gtk.ran
  /\ uniqueDocs' = [uniqueDocs EXCEPT
                      ![c] = Doc(WithExistingTargets(UniqueItems(d), targetKeywords))]
  /\ gtk' = GtkIdle
  /\ UNCHANGED <<targetKeywords, sharedDocs>>

\* generateTargetKeywords(uid), lines 526-637, called once the intersection
\* documents of the run are written (process-seo-analysis.js 103-148).
GenerateTargetKeywords ==
  /\ ~gtk.ran
  /\ LET allKeywords == AllKeywords(uniqueDocs, 1)
         scoredKeywords == SortByScore(ScoreKeywords(allKeywords), 1, <<>>)
         sel == SelectDiverse(scoredKeywords, 1, <<>>, <<>>)
     IN  IF Len(allKeywords) = 0
         THEN /\ gtk' = [GtkIdle EXCEPT !.ran = TRUE]
              /\ UNCHANGED <<targetKeywords, sharedDocs, uniqueDocs>>
         ELSE /\ gtk' = [ran |-> TRUE, allKeywords |-> allKeywords,
                         scoredKeywords |-> scoredKeywords,
                         picked |-> sel.picked,
                         selectedKeywords |-> sel.selectedKeywords]
              /\ targetKeywords' = sel.selectedKeywords
              /\ sharedDocs' = [c \in Competitors |->
                                  MarkTargeted(sharedDocs[c], sel.selectedKeywords)]
              /\ uniqueDocs' = [c \in Competitors |->
                                  MarkTargeted(uniqueDocs[c], sel.selectedKeywords)]

\* The target keywords an earlier run may have left in the user document.
PriorTargetKeywords ==
  { <<>>, << <<"d","o","g"," ","g","r","o","o","m","i","n","g">>, <<"a">> >> }


-----------------------------------------------------------------------------
(* The competitor analysis call, one action per provider call and one for  *)
(* the filter and ranking that follow (processOnlineBusinessSEO,           *)
(* processLocalBusinessSEO).  calls is the history of provider calls.      *)

RkIdle ==
  [pc |-> "idle", userData |-> UserData("", FullBusiness, <<>>), uidGiven |-> FALSE,
   calls |-> <<>>, alt |-> 0, competitorItems |-> <<>>, filtered |-> <<>>,
   world |-> "none", embedding |-> "none", mode |-> "none",
   topCompetitors |-> <<>>, error |-> ""]

RkStart(userData, uidGiven) ==
  [RkIdle EXCEPT !.pc = "start", !.userData = userData, !.uidGiven = uidGiven]

Call(target, alternate, response) ==
  [target |-> target, alternate |-> alternate, kind |-> response.kind,
   items |-> ItemsOf(response)]

\* Line 98 without the test for an empty primary answer.
FallbackNeededAlways(competitorItems, competitors) == Len(competitors) > 0

\* Line 98: competitorItems.length === 0 && competitors && competitors.length > 0
FallbackNeeded(competitorItems, competitors) ==
  Len(competitorItems) = 0 /\ Len(competitors) > 0

\* Lines 62-95: validation and the call for the user's own domain.
DiscoverOnline(response) ==
  /\ rk.pc = "start"
  /\ rk.userData.businessType = "online"
  /\ LET business == rk.userData.business
         parsed == UrlHostname(business.websiteUrl)
         userDomain == replace(parsed.hostname, sWww, <<>>)
         competitorItems == ItemsOf(response)
     IN  rk' =
           IF business.targetCountryCode = <<>>
           THEN [rk EXCEPT !.pc = "failed",
                   !.error = "Target country code is required for online business analysis"]
           ELSE IF business.websiteUrl = <<>>
           THEN [rk EXCEPT !.pc = "failed",
                   !.error = "Website URL is required for online business competitor discovery"]
           ELSE IF ~parsed.ok
           THEN [rk EXCEPT !.pc = "failed", !.error = "Invalid URL"]
           ELSE IF response.kind = "error"
           THEN [rk EXCEPT !.pc = "failed",
                   !.error = "DataForSEO Competitors API error",
                   !.calls = Append(@, Call(userDomain, 0, response))]
           ELSE [rk EXCEPT
                   !.calls = Append(@, Call(userDomain, 0, response)),
                   !.competitorItems = competitorItems,
                   !.alt = 1,
                   !.pc = IF FallbackNeeded(competitorItems, rk.userData.competitors)
                          THEN "fallback" ELSE "rank"]

\* Lines 103-137: one turn of the loop over the user-inputted competitors.
TryAlternate(response) ==
  /\ rk.pc = "fallback"
  /\ LET competitorUrl == rk.userData.competitors[rk.alt]
         competitorDomain == CompetitorDomainTable[competitorUrl]
         fallbackItems == ItemsOf(response)
         next == [rk EXCEPT !.alt = @ + 1,
                            !.pc = IF rk.alt + 1 > Len(rk.userData.competitors)
                                   THEN "rank" ELSE "fallback"]
     IN  rk' =
           IF ~competitorDomain.ok THEN next
           ELSE IF response.kind = "error" \/ Len(fallbackItems) = 0
           THEN [next EXCEPT
                   !.calls = Append(@, Call(competitorDomain.domain, rk.alt, response))]
           ELSE [rk EXCEPT
                   !.calls = Append(@, Call(competitorDomain.domain, rk.alt, response)),
                   !.competitorItems = fallbackItems,
                   !.pc = "rank"]

\* Whether the ranking reaches the scraper and the page embeddings.
Consulted(userDoc, uidGiven) ==
  uidGiven /\ userDoc.exists /\ ExtractServices(userDoc.services, 1) # <<>>

\* Lines 147-362: the filter and the ranking.
RankOnline(world, embedding) ==
  /\ rk.pc = "rank"
  /\ rk.userData.businessType = "online"
  /\ LET filteredCompetitors == FilterCompetitors(rk.competitorItems)
         top == TopCompetitorsOnline(filteredCompetitors, rk.uidGiven, user,
                                     world, embedding)
     IN  rk' = [rk EXCEPT
                  !.pc = "done",
                  !.filtered = filteredCompetitors,
                  !.world = IF Consulted(user, rk.uidGiven) THEN world ELSE "none",
                  !.embedding = IF Consulted(user, rk.uidGiven) THEN embedding ELSE "none",
                  !.mode = top.mode,
                  !.topCompetitors = top.topCompetitors]

\* local-analysis.js 57-89: validation and the Maps call.
DiscoverLocal(response) ==
  /\ rk.pc = "start"
  /\ rk.userData.businessType = "local"
  /\ LET business == rk.userData.business
     IN  rk' =
           IF Falsy(business.latitude) \/ Falsy(business.longitude)
           THEN [rk EXCEPT !.pc = "failed",
                   !.error = "Latitude and longitude are required for local business analysis"]
           ELSE IF business.businessTypeIdentifier = <<>>
           THEN [rk EXCEPT !.pc = "failed",
                   !.error = "Business type identifier is required"]
           ELSE IF response.kind = "error"
           THEN [rk EXCEPT !.pc = "failed",
                   !.error = "DataForSEO Maps API error",
                   !.calls = Append(@, Call(business.businessTypeIdentifier, 0, response))]
           ELSE [rk EXCEPT
                   !.calls = Append(@, Call(business.businessTypeIdentifier, 0, response)),
                   !.competitorItems = ItemsOf(response),
                   !.pc = "rank"]

\* local-analysis.js 88-250: the filter, the deduplication and the ranking.
RankLocal(world, embedding) ==
  /\ rk.pc = "rank"
  /\ rk.userData.businessType = "local"
  /\ LET uniqueBusinesses == UniqueBusinesses(rk.competitorItems)
         top == TopCompetitorsLocal(uniqueBusinesses, rk.uidGiven, user,
                                    world, embedding)
     IN  rk' = [rk EXCEPT
                  !.pc = "done",
                  !.filtered = uniqueBusinesses,
                  !.world = IF Consulted(user, rk.uidGiven) THEN world ELSE "none",
                  !.embedding = IF Consulted(user, rk.uidGiven) THEN embedding ELSE "none",
                  !.mode = top.mode,
                  !.topCompetitors = top.topCompetitors]

-----------------------------------------------------------------------------
(* POST /seo/start-analysis and the steps of the run it starts.  A new     *)
(* start is taken only once the previous run of the user has ended.        *)

\* Lines 321-495: the documents of one collection after the loop over the
\* competitors.
StoredDocs(docs, allCompetitors, outcome, existingTargetKeywords, shared) ==
  LET domains == {IntersectionDomainTable[allCompetitors[i]].domain :
                    i \in {j \in DOMAIN allCompetitors :
                             IntersectionDomainTable[allCompetitors[j]].ok}}
  IN  [c \in Competitors |->
         IF DomainsWithKeywords[c] \in domains /\ outcome[c] # 0
         THEN Doc(WithExistingTargets(IF shared THEN SharedItems(1)
                                      ELSE UniqueItems(outcome[c]),
                                      existingTargetKeywords))
         ELSE docs[c]]

\* routes/seo.js 84-139: the user must exist with onboarding completed; the
\* status 'processing' is stored and processSEOAnalysis is started.
StartAnalysis ==
  /\ run.pc \in {"idle", "done"}
  /\ run.other # "running"
  /\ user.exists
  /\ user.onboardingCompleted
  /\ user' = updateSEOAnalysisStatus(AgedDoc(user), "processing", "").doc
  /\ run' = [RunIdle EXCEPT !.pc = "read"]
  /\ rk' = RkIdle
  /\ gtk' = GtkIdle
  /\ UNCHANGED <<targetKeywords, sharedDocs, uniqueDocs>>
  /\ UNCHANGED pure

\* routes/seo.js 84-139 while a run of the user is in progress: the route has
\* no test for it, stores 'processing' again and starts a second run.
StartOverlapping ==
  /\ run.pc \notin {"idle", "done"}
  /\ run.other = "none"
  /\ user.exists
  /\ user.onboardingCompleted
  /\ user' = updateSEOAnalysisStatus(user, "processing", "").doc
  /\ run' = [run EXCEPT !.other = "running"]
  /\ UNCHANGED <<rk, targetVars>>
  /\ UNCHANGED pure

\* Lines 47-53, 221-231 in the second run: its discovery call fails and its
\* catch stores 'failed' with the message; nothing else is written by it.
OverlappingRunFails ==
  /\ run.other = "running"
  /\ user' = updateSEOAnalysisStatus(user, "failed",
                IF user.businessType = "local" THEN "DataForSEO Maps API error"
                ELSE "DataForSEO Competitors API error").doc
  /\ run' = [run EXCEPT !.other = "ended"]
  /\ UNCHANGED <<rk, targetVars>>
  /\ UNCHANGED pure

\* The owner of the document changes it between the check of the route and
\* the read of line 17: the account is deleted, or onboarding is reopened.
ClientEdit(change) ==
  /\ run.pc = "read"
  /\ user.exists
  /\ user.onboardingCompleted
  /\ IF change = "delete"
     THEN user' = NoUserDoc /\ targetKeywords' = <<>>
     ELSE user' = [user EXCEPT !.onboardingCompleted = FALSE] /\ UNCHANGED targetKeywords
  /\ UNCHANGED <<sharedDocs, uniqueDocs, gtk, rk, run>>
  /\ UNCHANGED pure

\* Lines 16-53: the document is read and checked and the analysis of the
\* business type is entered.  The two early checks store 'failed' and throw
\* into the catch of line 221, which stores 'failed' again; for a missing
\* document both updates are rejected.
ReadUser ==
  /\ run.pc = "read"
  /\ LET twice(message, again) ==
           LET first == Fail(run, user, message)
           IN  Fail(first.run, first.user, again)
         end == IF ~user.exists
                THEN twice("User not found", "No document to update")
                ELSE IF ~user.onboardingCompleted
                THEN twice("Onboarding not completed", "Onboarding not completed")
                ELSE Fail(run, user, "Unknown business type")
     IN  IF user.exists /\ user.onboardingCompleted
            /\ user.businessType \in {"local", "online"}
         THEN /\ rk' = RkStart(UserData(user.businessType, user.business,
                                        user.competitors), TRUE)
              /\ run' = [run EXCEPT !.pc = "analysis"]
              /\ UNCHANGED user
         ELSE /\ run' = end.run
              /\ user' = end.user
              /\ UNCHANGED rk
  /\ UNCHANGED targetVars
  /\ UNCHANGED pure

\* Lines 47-53, 221-231: the analysis raised; 'failed' is stored with its
\* message.
AnalysisRaised ==
  /\ run.pc = "analysis"
  /\ rk.pc = "failed"
  /\ LET end == Fail(Ran(run, "analysis", "done"), user, rk.error)
     IN  run' = end.run /\ user' = end.user
  /\ UNCHANGED <<rk, targetVars>>
  /\ UNCHANGED pure

\* The run goes on after the analysis without the update of lines 55-57.
PersistResultsOmitted(ok) ==
  /\ run.pc = "analysis"
  /\ rk.pc = "done"
  /\ IF ok
     THEN /\ UNCHANGED user
          /\ run' = Ran(Ran(run, "analysis", "intersection"), "persist", "intersection")
     ELSE LET end == Fail(Ran(run, "analysis", "done"), user,
                          "The results could not be stored")
          IN  run' = end.run /\ user' = end.user
  /\ UNCHANGED <<rk, targetVars>>
  /\ UNCHANGED pure

\* Lines 55-57: the results are stored in the user document; when the
\* update is rejected the catch of line 221 stores 'failed'.
PersistResults(ok) ==
  /\ run.pc = "analysis"
  /\ rk.pc = "done"
  /\ IF ok
     THEN /\ user' = [user EXCEPT !.hasResults = TRUE,
                                  !.seoAnalysisResults = rk.topCompetitors]
          /\ run' = Ran(Ran(run, "analysis", "intersection"), "persist", "intersection")
     ELSE LET end == Fail(Ran(run, "analysis", "done"), user,
                          "The results could not be stored")
          IN  run' = end.run /\ user' = end.user
  /\ UNCHANGED <<rk, targetVars>>
  /\ UNCHANGED pure

\* Lines 59-139, 149-156: the domain intersection analysis and the update of
\* the competitors array.  It is skipped without a website or without
\* competitors; an error of runDomainIntersectionAnalysis (the website is
\* not a url, the services cannot be embedded) is caught at line 152.
RunIntersection(raises, outcome) ==
  /\ run.pc = "intersection"
  /\ LET userData == rk.userData
         website == userData.business.websiteUrl
         allCompetitors == AllCompetitors(userData, rk.topCompetitors)
     IN  IF website = <<>> \/ Len(allCompetitors) = 0
         THEN /\ run' = [run EXCEPT !.pc = "ideas"]
              /\ UNCHANGED <<user, sharedDocs, uniqueDocs>>
         ELSE IF ~UrlHostname(website).ok \/ raises
         THEN /\ run' = Caught(run, "intersection", "ideas")
              /\ UNCHANGED <<user, sharedDocs, uniqueDocs>>
         ELSE /\ sharedDocs' = StoredDocs(sharedDocs, allCompetitors, outcome,
                                          targetKeywords, TRUE)
              /\ uniqueDocs' = StoredDocs(uniqueDocs, allCompetitors, outcome,
                                          targetKeywords, FALSE)
              /\ user' = [user EXCEPT !.competitors =
                            IF Len(rk.topCompetitors) > 0
                            THEN MergedCompetitors(userData, rk.topCompetitors)
                            ELSE @]
              /\ run' = Ran(Ran(run, "intersection", "targets"), "competitors", "targets")
  /\ UNCHANGED <<targetKeywords, gtk, rk>>
  /\ UNCHANGED pure

\* Lines 141-148: generateTargetKeywords, with its error caught.
GenerateTargets(ok) ==
  /\ run.pc = "targets"
  /\ IF ok
     THEN GenerateTargetKeywords /\ run' = Ran(run, "targets", "ideas")
     ELSE run' = Caught(run, "targets", "ideas") /\ UNCHANGED targetVars
  /\ UNCHANGED <<user, rk>>
  /\ UNCHANGED pure

\* Lines 158-175: generateKeywordIdeas, with its error caught.
KeywordIdeas(ok) ==
  /\ run.pc = "ideas"
  /\ run' = IF ok THEN Ran(run, "ideas", "complete") ELSE Caught(run, "ideas", "complete")
  /\ UNCHANGED <<user, rk, targetVars>>
  /\ UNCHANGED pure

\* Lines 177-178: the status 'completed' is stored.
MarkCompleted ==
  /\ run.pc = "complete"
  /\ LET w == updateSEOAnalysisStatus(user, "completed", "")
     IN  /\ user' = w.doc
         /\ run' = [Ran(run, "completed", "content") EXCEPT
                      !.writes = Append(@, StatusWrite("completed", "", w.stored))]
  /\ UNCHANGED <<rk, targetVars>>
  /\ UNCHANGED pure

\* Lines 182-219: the content generation is triggered, with its error caught.
ContentGeneration(ok) ==
  /\ run.pc = "content"
  /\ run' = IF ok THEN Ran(run, "content", "done") ELSE Caught(run, "content", "done")
  /\ UNCHANGED <<user, rk, targetVars>>
  /\ UNCHANGED pure

-----------------------------------------------------------------------------
(* The specifications.                                                     *)

\* The target keyword selector over the stored intersection documents.
InitTarget ==
  /\ targetKeywords \in PriorTargetKeywords
  /\ sharedDocs = [c \in Competitors |-> NoDoc]
  /\ uniqueDocs = [c \in Competitors |-> NoDoc]
  /\ gtk = GtkIdle
  /\ user = NoUserDoc
  /\ rk = RkIdle
  /\ run = RunIdle
  /\ pure = NoCall

NextTarget ==
  \/ \E c \in Competitors, d \in SharedResponses :
       StoreSharedDoc(c, d) /\ UNCHANGED <<user, rk, run, pure>>
  \/ \E c \in Competitors, d \in UniqueResponses :
       StoreUniqueDoc(c, d) /\ UNCHANGED <<user, rk, run, pure>>
  \/ GenerateTargetKeywords /\ UNCHANGED <<user, rk, run, pure>>

SpecTarget == InitTarget /\ [][NextTarget]_vars

\* One call of the competitor analysis, with every input of the catalogue.
InitRank ==
  /\ run = RunIdle
  /\ pure = NoCall
  /\ targetKeywords = <<>>
  /\ sharedDocs = [c \in Competitors |-> NoDoc]
  /\ uniqueDocs = [c \in Competitors |-> NoDoc]
  /\ gtk = GtkIdle
  /\ \E businessType \in {"online", "local"}, uidGiven \in BOOLEAN :
       \E business \in (IF businessType = "online" THEN OnlineBusinesses ELSE LocalBusinesses),
          competitors \in (IF businessType = "online" THEN CompetitorLists ELSE {<<>>}) :
         /\ rk = RkStart(UserData(businessType, business, competitors), uidGiven)
         /\ user \in {NoUserDoc} \cup
              (IF uidGiven
               THEN {UserDoc(TRUE, TRUE, businessType, business, s, c) :
                       s \in ServicesCatalogue, c \in StoredCompetitorLists}
               ELSE {})

AlternateResponses == {ApiError, Items(<<>>), Items(ExampleItems)}

NextRank ==
  \/ \E response \in CompetitorsResponses :
       DiscoverOnline(response) /\ UNCHANGED <<user, targetVars, run, pure>>
  \/ \E response \in AlternateResponses :
       TryAlternate(response) /\ UNCHANGED <<user, targetVars, run, pure>>
  \/ \E world \in Worlds, embedding \in EmbeddingOutcomes :
       RankOnline(world, embedding) /\ UNCHANGED <<user, targetVars, run, pure>>
  \/ \E response \in MapsResponses :
       DiscoverLocal(response) /\ UNCHANGED <<user, targetVars, run, pure>>
  \/ \E world \in Worlds, embedding \in EmbeddingOutcomes :
       RankLocal(world, embedding) /\ UNCHANGED <<user, targetVars, run, pure>>

SpecRank == InitRank /\ [][NextRank]_vars

\* Runs of the whole pipeline, one after the other, for one user.
PlumbingServices ==
  << ServiceObject(tPlumbing, <<>>, <<>>, tDrainRepair), ServiceString(tPlumbing) >>

PipelineUsers ==
  { UserDoc(TRUE, TRUE, "online", FullBusiness, PlumbingServices, <<uGamma>>),
    UserDoc(TRUE, TRUE, "online", Business(<<>>, uAcme, undefined, undefined, <<>>),
            PlumbingServices, <<>>),
    UserDoc(TRUE, TRUE, "local", FullBusiness, PlumbingServices, <<>>),
    UserDoc(TRUE, TRUE, "local", Business(tUS, <<>>, Num(407), Num(-740), tPlumber),
            PlumbingServices, <<>>),
    UserDoc(TRUE, TRUE, "local", Business(tUS, uAcmeBare, Num(407), Num(-740), tPlumber),
            <<>>, <<uGamma>>),
    UserDoc(TRUE, TRUE, "hybrid", FullBusiness, PlumbingServices, <<>>) }

PipelineWorlds == {"up", "down"}

Init ==
  /\ targetKeywords = <<>>
  /\ sharedDocs = [c \in Competitors |-> NoDoc]
  /\ uniqueDocs = [c \in Competitors |-> NoDoc]
  /\ gtk = GtkIdle
  /\ rk = RkIdle
  /\ run = RunIdle
  /\ pure = NoCall
  /\ user \in PipelineUsers

Next ==
  \/ StartAnalysis
  \/ \E change \in {"delete", "reopen"} : ClientEdit(change)
  \/ ReadUser
  \/ \E response \in AlternateResponses :
       DiscoverOnline(response) /\ UNCHANGED <<user, targetVars, run, pure>>
  \/ \E response \in AlternateResponses :
       TryAlternate(response) /\ UNCHANGED <<user, targetVars, run, pure>>
  \/ \E world \in PipelineWorlds :
       RankOnline(world, "up") /\ UNCHANGED <<user, targetVars, run, pure>>
  \/ \E response \in {ApiError, Items(MapsItems1)} :
       DiscoverLocal(response) /\ UNCHANGED <<user, targetVars, run, pure>>
  \/ \E world \in PipelineWorlds :
       RankLocal(world, "up") /\ UNCHANGED <<user, targetVars, run, pure>>
  \/ AnalysisRaised
  \/ \E ok \in BOOLEAN : PersistResults(ok)
  \/ \E raises \in BOOLEAN, outcome \in [Competitors -> IntersectionOutcomes] :
       RunIntersection(raises, outcome)
  \/ \E ok \in BOOLEAN : GenerateTargets(ok)
  \/ \E ok \in BOOLEAN : KeywordIdeas(ok)
  \/ MarkCompleted
  \/ \E ok \in BOOLEAN : ContentGeneration(ok)

Spec == Init /\ [][Next]_vars

\* The steps of a run in progress, each of which ends once its external
\* calls have returned or failed.
RunStep ==
  \/ ReadUser
  \/ \E response \in AlternateResponses :
       DiscoverOnline(response) /\ UNCHANGED <<user, targetVars, run, pure>>
  \/ \E response \in AlternateResponses :
       TryAlternate(response) /\ UNCHANGED <<user, targetVars, run, pure>>
  \/ \E world \in PipelineWorlds :
       RankOnline(world, "up") /\ UNCHANGED <<user, targetVars, run, pure>>
  \/ \E response \in {ApiError, Items(MapsItems1)} :
       DiscoverLocal(response) /\ UNCHANGED <<user, targetVars, run, pure>>
  \/ \E world \in PipelineWorlds :
       RankLocal(world, "up") /\ UNCHANGED <<user, targetVars, run, pure>>
  \/ AnalysisRaised
  \/ \E ok \in BOOLEAN : PersistResults(ok)
  \/ \E raises \in BOOLEAN, outcome \in [Competitors -> IntersectionOutcomes] :
       RunIntersection(raises, outcome)
  \/ \E ok \in BOOLEAN : GenerateTargets(ok)
  \/ \E ok \in BOOLEAN : KeywordIdeas(ok)
  \/ MarkCompleted
  \/ \E ok \in BOOLEAN : ContentGeneration(ok)

\* Runs of one user that may overlap: POST /seo/start-analysis is accepted
\* while a run is in progress.
OverlapUsers ==
  { UserDoc(TRUE, TRUE, "online", FullBusiness, PlumbingServices, <<uGamma>>),
    UserDoc(TRUE, TRUE, "local", FullBusiness, PlumbingServices, <<>>) }

InitOverlap ==
  /\ targetKeywords = <<>>
  /\ sharedDocs = [c \in Competitors |-> NoDoc]
  /\ uniqueDocs = [c \in Competitors |-> NoDoc]
  /\ gtk = GtkIdle
  /\ rk = RkIdle
  /\ run = RunIdle
  /\ pure = NoCall
  /\ user \in OverlapUsers

NextOverlap ==
  \/ StartAnalysis
  \/ StartOverlapping
  \/ OverlappingRunFails
  \/ \E change \in {"delete", "reopen"} : ClientEdit(change)
  \/ RunStep

SpecOverlap == InitOverlap /\ [][NextOverlap]_vars

\* One batch call of getEmbedding, for every batch and every answer.
EmbeddingCall(input) ==
  [op |-> "getEmbedding", input |-> input, pc |-> "called", error |-> "",
   data |-> <<>>, result |-> <<>>]

GetEmbeddingBatch(response) ==
  /\ pure.op = "getEmbedding"
  /\ pure.pc = "called"
  /\ LET out == getEmbeddingBatch(pure.input, response)
     IN  pure' = [pure EXCEPT !.pc = out.pc, !.error = out.error,
                              !.data = out.data, !.result = out.result]
  /\ UNCHANGED <<user, rk, run, targetVars>>

InitEmbedding ==
  /\ targetKeywords = <<>>
  /\ sharedDocs = [c \in Competitors |-> NoDoc]
  /\ uniqueDocs = [c \in Competitors |-> NoDoc]
  /\ gtk = GtkIdle
  /\ rk = RkIdle
  /\ run = RunIdle
  /\ user = NoUserDoc
  /\ \E input \in Batches : pure = EmbeddingCall(input)

NextEmbedding == \E response \in BatchResponses(pure.input) : GetEmbeddingBatch(response)

SpecEmbedding == InitEmbedding /\ [][NextEmbedding]_vars

\* One similarity computed by one of its callers, for every pair of
\* embeddings.
SimilarityCall(vecA, vecB) ==
  [op |-> "cosineSimilarity", vecA |-> vecA, vecB |-> vecB, pc |-> "called",
   caller |-> "none", recorded |-> RecordedSimilarity("none", <<>>, <<>>)]

RecordSimilarity(caller) ==
  /\ pure.op = "cosineSimilarity"
  /\ pure.pc = "called"
  /\ pure' = [pure EXCEPT !.pc = "recorded", !.caller = caller,
                          !.recorded = RecordedSimilarity(caller, pure.vecA, pure.vecB)]
  /\ UNCHANGED <<user, rk, run, targetVars>>

InitSimilarity ==
  /\ targetKeywords = <<>>
  /\ sharedDocs = [c \in Competitors |-> NoDoc]
  /\ uniqueDocs = [c \in Competitors |-> NoDoc]
  /\ gtk = GtkIdle
  /\ rk = RkIdle
  /\ run = RunIdle
  /\ user = NoUserDoc
  /\ \E vecA, vecB \in Embeddings : pure = SimilarityCall(vecA, vecB)

NextSimilarity == \E caller \in SimilarityCallers : RecordSimilarity(caller)

SpecSimilarity == InitSimilarity /\ [][NextSimilarity]_vars

\* One call of generateKeywordIdeas for every list of the catalogue.
IdeasCall(items) ==
  [op |-> "generateKeywordIdeas", items |-> items, pc |-> "called",
   keywordIdeas |-> <<>>, top_opportunities |-> categorizeKeywords(<<>>)]

GenerateKeywordIdeas(kind) ==
  /\ pure.op = "generateKeywordIdeas"
  /\ pure.pc = "called"
  /\ LET out == generateKeywordIdeas([kind |-> kind, items |-> pure.items])
     IN  pure' = [pure EXCEPT !.pc = out.pc, !.keywordIdeas = out.keywordIdeas,
                              !.top_opportunities = out.top_opportunities]
  /\ UNCHANGED <<user, rk, run, targetVars>>

InitIdeas ==
  /\ targetKeywords = <<>>
  /\ sharedDocs = [c \in Competitors |-> NoDoc]
  /\ uniqueDocs = [c \in Competitors |-> NoDoc]
  /\ gtk = GtkIdle
  /\ rk = RkIdle
  /\ run = RunIdle
  /\ user = NoUserDoc
  /\ \E items \in IdeaLists : pure = IdeasCall(items)

NextIdeas == \E kind \in {"items", "error"} : GenerateKeywordIdeas(kind)

SpecIdeas == InitIdeas /\ [][NextIdeas]_vars

\* One page fetched by a ranking, for every outcome of the request.
ScrapeCall(url, body) ==
  [op |-> "scrapeWebsiteWithJina", url |-> url, body |-> body, pc |-> "called",
   outcome |-> "none", caller |-> "none", scrape |-> ScrapeRequest("status", <<>>),
   result |-> ScrapeResult(ScrapeRequest("status", <<>>))]

ScrapeWebsite(outcome) ==
  /\ pure.op = "scrapeWebsiteWithJina"
  /\ pure.pc = "called"
  /\ pure' = [pure EXCEPT !.pc = "fetched", !.outcome = outcome,
                          !.scrape = ScrapeRequest(outcome, pure.body)]
  /\ UNCHANGED <<user, rk, run, targetVars>>

UseScrape(caller) ==
  /\ pure.op = "scrapeWebsiteWithJina"
  /\ pure.pc = "fetched"
  /\ pure' = [pure EXCEPT !.pc = "used", !.caller = caller,
                          !.result = ScrapeResult(pure.scrape)]
  /\ UNCHANGED <<user, rk, run, targetVars>>

InitFetch ==
  /\ targetKeywords = <<>>
  /\ sharedDocs = [c \in Competitors |-> NoDoc]
  /\ uniqueDocs = [c \in Competitors |-> NoDoc]
  /\ gtk = GtkIdle
  /\ rk = RkIdle
  /\ run = RunIdle
  /\ user = NoUserDoc
  /\ \E url \in FetchUrls, body \in FetchBodies : pure = ScrapeCall(url, body)

NextFetch ==
  \/ \E outcome \in FetchOutcomes : ScrapeWebsite(outcome)
  \/ \E caller \in {"online", "local"} : UseScrape(caller)

SpecFetch == InitFetch /\ [][NextFetch]_vars

\* The batches of processLocalBusinessSEO (local-analysis.js 167-196): the
\* unique businesses are the numbers 1..n; fetching and embedding count the
\* calls of scrapeWebsiteWithJina and of getEmbedding that are in flight.
BatchSize == 20
MaxBatches == 2

BatchCall(n) ==
  [op |-> "localBatches", n |-> n, i |-> 0, pc |-> "loop",
   fetching |-> 0, embedding |-> 0, competitorAnalysis |-> <<>>]

\* uniqueBusinesses.slice(i, i + batchSize), i counted from 0.
BatchAt(n, i) == [j \in 1..((IF i + BatchSize < n THEN i + BatchSize ELSE n) - i) |-> i + j]

\* A Promise.all that waits for the page fetches only.
BatchSettledFetches(p) == p.fetching = 0

\* Line 173: await Promise.all resolves once every callback of the batch has
\* returned, after its fetch and, for a scraped page, its embedding call.
BatchSettled(p) == p.fetching = 0 /\ p.embedding = 0

\* Lines 170-175: batch.map starts the fetch of every business of the batch.
StartBatch ==
  /\ pure.op = "localBatches"
  /\ pure.pc = "loop"
  /\ pure.i < pure.n
  /\ pure' = [pure EXCEPT !.pc = "awaiting",
                          !.fetching = @ + Len(BatchAt(pure.n, pure.i))]
  /\ UNCHANGED <<user, rk, run, targetVars>>

\* Lines 175-181: one fetch returns; a scraped text is sent to getEmbedding.
FetchCompletes(scraped) ==
  /\ pure.op = "localBatches"
  /\ pure.fetching > 0
  /\ pure' = [pure EXCEPT !.fetching = @ - 1,
                          !.embedding = IF scraped THEN @ + 1 ELSE @]
  /\ UNCHANGED <<user, rk, run, targetVars>>

\* Lines 181-189: one embedding call returns; its rejection rejects the
\* Promise.all and the catch of line 218 ends the ranking.
EmbeddingCompletes(ok) ==
  /\ pure.op = "localBatches"
  /\ pure.embedding > 0
  /\ pure' = [pure EXCEPT !.embedding = @ - 1,
                          !.pc = IF ~ok /\ @ = "awaiting" THEN "rejected" ELSE @]
  /\ UNCHANGED <<user, rk, run, targetVars>>

\* Lines 173, 193 and the loop step: the results of the batch are pushed in
\* the order of the batch.
BatchResolves ==
  /\ pure.op = "localBatches"
  /\ pure.pc = "awaiting"
  /\ BatchSettled(pure)
  /\ pure' = [pure EXCEPT !.pc = "loop",
                          !.competitorAnalysis = @ \o BatchAt(pure.n, pure.i),
                          !.i = @ + BatchSize]
  /\ UNCHANGED <<user, rk, run, targetVars>>

\* Lines 198-202: the loop has ended and the list is sorted.
SortAnalysis ==
  /\ pure.op = "localBatches"
  /\ pure.pc = "loop"
  /\ pure.i >= pure.n
  /\ pure' = [pure EXCEPT !.pc = "sorted"]
  /\ UNCHANGED <<user, rk, run, targetVars>>

\* Numbers of unique businesses around the ends of the batches.
BusinessCounts ==
  {0, 1} \cup {c * BatchSize + d : c \in 1..MaxBatches, d \in {-1, 0, 1}}

\* generateBlogPost (seo-analysis-status.js 97-590) called by the pipeline
\* (process-seo-analysis.js 200) and by POST /content/generate-blog
\* (routes/content.js 63), on one content plan.  titles is the stored titles
\* array of the plan and articles the stored articles, oldest first.
NumTitles == 3
MaxCalls == 2
Callers == {"pipeline", "route"}

Title(created, generating) == [created |-> created, generating |-> generating]
CallIdle(n) == [pc |-> "idle", n |-> n, titles |-> <<>>, index |-> 0]

BlogCall ==
  [op |-> "generateBlogPost",
   titles |-> [t \in 1..NumTitles |-> Title(FALSE, FALSE)],
   articles |-> <<>>,
   calls |-> [p \in Callers |-> CallIdle(0)]]

\* Line 121: titles.findIndex((t) => !t.created), from 1; 0 when there is none.
UncreatedIndex(titles) ==
  IF \E t \in DOMAIN titles : ~titles[t].created
  THEN CHOOSE t \in DOMAIN titles :
         ~titles[t].created /\ \A u \in DOMAIN titles : ~titles[u].created => t <= u
  ELSE 0

\* Lines 104-136: the plan is read and its first uncreated title selected;
\* without one the call throws.
SelectTitle(p) ==
  /\ pure.op = "generateBlogPost"
  /\ pure.calls[p].pc = "idle"
  /\ pure.calls[p].n < MaxCalls
  /\ LET index == UncreatedIndex(pure.titles)
     IN  pure' = [pure EXCEPT
                    !.calls[p] = IF index = 0 THEN CallIdle(@.n + 1)
                                 ELSE [pc |-> "selected", n |-> @.n,
                                       titles |-> pure.titles, index |-> index]]
  /\ UNCHANGED <<user, rk, run, targetVars>>

\* Lines 143-155: the titles array as read, with generating set on the
\* selected title, replaces the stored array.
MarkGenerating(p) ==
  /\ pure.op = "generateBlogPost"
  /\ pure.calls[p].pc = "selected"
  /\ pure' = [pure EXCEPT
                !.titles = [pure.calls[p].titles EXCEPT
                              ![pure.calls[p].index].generating = TRUE],
                !.calls[p].pc = "generating"]
  /\ UNCHANGED <<user, rk, run, targetVars>>

\* Lines 157-542: the article is generated and saved, or a step throws.
SaveArticle(p, ok) ==
  /\ pure.op = "generateBlogPost"
  /\ pure.calls[p].pc = "generating"
  /\ pure' = IF ok
             THEN [pure EXCEPT
                     !.articles = Append(@, [titleIndex |-> pure.calls[p].index,
                                             call |-> p]),
                     !.calls[p].pc = "saved"]
             ELSE [pure EXCEPT !.calls[p] = CallIdle(@.n + 1)]
  /\ UNCHANGED <<user, rk, run, targetVars>>

\* Lines 546-560: the titles array as read at the selection, with created
\* set on the selected title, replaces the stored array.
MarkCreated(p) ==
  /\ pure.op = "generateBlogPost"
  /\ pure.calls[p].pc = "saved"
  /\ pure' = [pure EXCEPT
                !.titles = [pure.calls[p].titles EXCEPT
                              ![pure.calls[p].index] = Title(TRUE, FALSE)],
                !.calls[p] = CallIdle(@.n + 1)]
  /\ UNCHANGED <<user, rk, run, targetVars>>

\* The scoring of n unique keywords: the loop of lines 409-420, one step per
\* chunk, then the map of lines 422-449 and the write of lines 474-488.
ScoringCall(n) ==
  [op |-> "keywordSimilarity", validKeywords |-> ValidKeywords(n), i |-> 0,
   allEmbeddings |-> <<>>, failedChunks |-> {}, pc |-> "embed",
   keywordsWithSimilarity |-> <<>>, written |-> FALSE]

EmbedChunk(ok) ==
  /\ pure.op = "keywordSimilarity"
  /\ pure.pc = "embed"
  /\ pure.i < Len(pure.validKeywords)
  /\ LET chunk == ChunkAt(pure.validKeywords, pure.i)
     IN  pure' = [pure EXCEPT
                    !.allEmbeddings = @ \o (IF ok THEN ChunkEmbeddings(chunk)
                                            ELSE FailedChunkEmbeddings(chunk)),
                    !.failedChunks = IF ok THEN @ ELSE @ \cup {pure.i},
                    !.i = @ + ChunkSize]
  /\ UNCHANGED <<user, rk, run, targetVars>>

ScoreChunks ==
  /\ pure.op = "keywordSimilarity"
  /\ pure.pc = "embed"
  /\ pure.i >= Len(pure.validKeywords)
  /\ pure' = [pure EXCEPT
                !.pc = "scored",
                !.keywordsWithSimilarity =
                   KeywordsWithSimilarity(pure.validKeywords, pure.allEmbeddings)]
  /\ UNCHANGED <<user, rk, run, targetVars>>

WriteUniqueDoc ==
  /\ pure.op = "keywordSimilarity"
  /\ pure.pc = "scored"
  /\ pure' = [pure EXCEPT !.pc = "written", !.written = TRUE]
  /\ UNCHANGED <<user, rk, run, targetVars>>

\* Keyword counts around the ends of the chunks.
KeywordCounts ==
  {0, 1} \cup {c * ChunkSize + d : c \in 1..MaxChunks, d \in {-1, 0}}
         \cup {c * ChunkSize + 1 : c \in 1..(MaxChunks - 1)}

\* The state of the stores and of the pipeline while a utility function is
\* studied on its own.
PipelineIdle ==
  /\ targetKeywords = <<>>
  /\ sharedDocs = [c \in Competitors |-> NoDoc]
  /\ uniqueDocs = [c \in Competitors |-> NoDoc]
  /\ gtk = GtkIdle
  /\ rk = RkIdle
  /\ run = RunIdle
  /\ user = NoUserDoc

\* normalize on two values v1 <= v2 with the limits generateTargetKeywords
\* passes (lines 559-565): the least and the greatest of one set of positive
\* numbers, or Infinity and -Infinity when the set is empty.
NormalizeValues == 0..MaxNormalized
NormalizeLimits ==
  {l \in {<<Num(lo), Num(hi)>> : lo \in 1..MaxNormalized, hi \in 1..MaxNormalized} :
     l[1].v <= l[2].v}
    \cup {<<Infinity, NegInfinity>>}

NormalizeCall(v1, v2, limits) ==
  [op |-> "normalize", v1 |-> v1, v2 |-> v2, min |-> limits[1], max |-> limits[2],
   pc |-> "called", r1 |-> FracNaN, r2 |-> FracNaN]

Normalize ==
  /\ pure.op = "normalize"
  /\ pure.pc = "called"
  /\ pure' = [pure EXCEPT !.pc = "returned",
                          !.r1 = normalize(pure.v1, pure.min, pure.max),
                          !.r2 = normalize(pure.v2, pure.min, pure.max)]
  /\ UNCHANGED <<user, rk, run, targetVars>>

InitNormalize ==
  /\ PipelineIdle
  /\ \E v1 \in NormalizeValues, v2 \in NormalizeValues, limits \in NormalizeLimits :
       /\ v1 <= v2
       /\ pure = NormalizeCall(v1, v2, limits)

NextNormalize == Normalize

SpecNormalize == InitNormalize /\ [][NextNormalize]_vars

InitScoring ==
  /\ PipelineIdle
  /\ \E n \in KeywordCounts : pure = ScoringCall(n)

NextScoring ==
  \/ \E ok \in BOOLEAN : EmbedChunk(ok)
  \/ ScoreChunks
  \/ WriteUniqueDoc

SpecScoring == InitScoring /\ [][NextScoring]_vars

InitBatches ==
  /\ PipelineIdle
  /\ \E n \in BusinessCounts : pure = BatchCall(n)

NextBatches ==
  \/ StartBatch
  \/ \E scraped \in BOOLEAN : FetchCompletes(scraped)
  \/ \E ok \in BOOLEAN : EmbeddingCompletes(ok)
  \/ BatchResolves
  \/ SortAnalysis

SpecBatches == InitBatches /\ [][NextBatches]_vars

InitBlog ==
  /\ PipelineIdle
  /\ pure = BlogCall

NextBlog ==
  \E p \in Callers :
    \/ SelectTitle(p)
    \/ MarkGenerating(p)
    \/ \E ok \in BOOLEAN : SaveArticle(p, ok)
    \/ MarkCreated(p)

SpecBlog == InitBlog /\ [][NextBlog]_vars

-----------------------------------------------------------------------------
(* Properties of the target keyword selector.                              *)

\* Jaccard overlap of two keywords over lowercase whitespace-split words >= 0.7.
OverlapAtLeast70(k1, k2) ==
  10 * Cardinality(WordSet(k1) \cap WordSet(k2))
    >= 7 * Cardinality(WordSet(k1) \cup WordSet(k2))

PairwiseDiverse(kws) ==
  \A i, j \in 1..Len(kws) : i < j => ~OverlapAtLeast70(kws[i], kws[j])

\* C1: the target keyword set produced by generateTargetKeywords, as returned
\* and as stored in the user document, has at most 20 members and no two of
\* them (not even two copies of one text from different competitors) have a
\* Jaccard word overlap >= 0.7.
C1_TargetSetBoundedAndDiverse ==
  (gtk.ran /\ Len(gtk.allKeywords) > 0) =>
    /\ targetKeywords = gtk.selectedKeywords
    /\ Len(targetKeywords) <= 20
    /\ PairwiseDiverse(targetKeywords)

\* C1 witness: a pool with more than 20 candidates in which one text comes from
\* two competitors, and the selection filled all 20 places.
C1_Witness ==
  /\ gtk.ran
  /\ Len(gtk.allKeywords) > 20
  /\ Len(targetKeywords) = 20
  /\ \E i, j \in 1..Len(gtk.allKeywords) :
       /\ gtk.allKeywords[i].keyword = gtk.allKeywords[j].keyword
       /\ gtk.allKeywords[i].source # gtk.allKeywords[j].source

ScoreGreater(a, b) ==
  /\ ~a.compositeScore.nan
  /\ ~b.compositeScore.nan
  /\ a.compositeScore.num * b.compositeScore.den > b.compositeScore.num * a.compositeScore.den

PlumberExample ==
  << <<"b","e","s","t"," ","p","l","u","m","b","e","r"," ","n","y","c">>,
     <<"b","e","s","t"," ","p","l","u","m","b","e","r"," ","n","y","c"," ","a","r","e","a">>,
     <<"d","o","g"," ","g","r","o","o","m","i","n","g">> >>

\* C4: the selector returns exactly the greedy selection.  The candidates are
\* walked in non-increasing composite-score order, ties in first-seen order; a
\* candidate is accepted iff fewer than 20 are accepted so far and it overlaps
\* < 0.7 with every keyword accepted before it; the output keeps that order;
\* the top-scored candidate is always selected; and the three-keyword example
\* with equal scores gives one plumber phrase plus "dog grooming".
C4_GreedySelection ==
  (gtk.ran /\ Len(gtk.allKeywords) > 0) =>
    LET sorted == gtk.scoredKeywords
        n == Len(sorted)
        picked == gtk.picked
        P == Range(picked)
    IN  /\ n = Len(gtk.allKeywords)
        /\ {sorted[i].pos : i \in 1..n} = 1..n
        /\ \A i \in 1..n : sorted[i].keyword = gtk.allKeywords[sorted[i].pos].keyword
        /\ \A i, j \in 1..n : i < j =>
             /\ ~ScoreGreater(sorted[j], sorted[i])
             /\ ~ScoreGreater(sorted[i], sorted[j]) => sorted[i].pos < sorted[j].pos
        /\ \A i \in 1..n :
             i \in P <=>
               /\ Cardinality({j \in P : j < i}) < 20
               /\ \A j \in P : j < i => ~OverlapAtLeast70(sorted[i].keyword, sorted[j].keyword)
        /\ \A a, b \in 1..Len(picked) : a < b => picked[a] < picked[b]
        /\ gtk.selectedKeywords = [a \in 1..Len(picked) |-> sorted[picked[a]].keyword]
        /\ targetKeywords = gtk.selectedKeywords
        /\ 1 \in P
        /\ ([i \in 1..n |-> gtk.allKeywords[i].keyword] = PlumberExample
            /\ \A i, j \in 1..n : ~ScoreGreater(sorted[i], sorted[j]))
           => gtk.selectedKeywords = <<PlumberExample[1], PlumberExample[3]>>

\* C4 witness: the example pool, where the second candidate is skipped although
\* it is ranked above the last accepted one.
C4_Witness ==
  /\ gtk.ran
  /\ [i \in 1..Len(gtk.allKeywords) |-> gtk.allKeywords[i].keyword] = PlumberExample
  /\ gtk.picked = <<1, 3>>
  /\ targetKeywords = <<PlumberExample[1], PlumberExample[3]>>


-----------------------------------------------------------------------------
(* Properties of the domain filter.                                        *)

\* p is a substring of s.
HasSubstring(s, p) ==
  \E k \in 1..(Len(s) - Len(p) + 1) : SubSeq(s, k, k + Len(p) - 1) = p

HasSuffix(s, p) ==
  Len(s) >= Len(p) /\ SubSeq(s, Len(s) - Len(p) + 1, Len(s)) = p

\* A metric that is missing (or not a number) counts as 0.
MetricValue(x) == IF x.t = "num" THEN x.v ELSE 0

\* The candidates the filter must let through.
PassesDomainFilter(item) ==
  /\ item.domain # <<>>
  /\ \A i \in DOMAIN excludedDomainsOnline :
       ~HasSubstring(toLowerCase(item.domain), excludedDomainsOnline[i])
  /\ ~HasSuffix(toLowerCase(item.domain), <<".", "g", "o", "v">>)
  /\ ~HasSuffix(toLowerCase(item.domain), <<".", "e", "d", "u">>)
  /\ MetricValue(item.etv) <= 100000
  /\ MetricValue(item.count) <= 50000

PassesDomainFilterTable == [item \in CatalogueItems |-> PassesDomainFilter(item)]

DomainsOf(items) == [i \in DOMAIN items |-> items[i].domain]

\* The three domains of the example, run through the filter.
FilterExample ==
  DomainsOf(FilterCompetitors(<< CompetitorItem(dFacebookPage, Num(10), Num(10)),
                                 CompetitorItem(dAgencyGov, Num(10), Num(10)),
                                 CompetitorItem(dAcmePlumbing, Num(1200), Num(300)) >>))
    = <<dAcmePlumbing>>

\* C6: the filtered list of the domain-based analysis is exactly the
\* subsequence, in the same relative order and with nothing added, of the
\* discovered candidates that have a domain, whose lower-cased domain holds no
\* blocklisted name as a substring and does not end in .gov or .edu, and whose
\* traffic value is <= 100000 and keyword count <= 50000, missing metrics
\* counting as 0; www.facebook.com/somepage and agency.gov are excluded and
\* acmeplumbing.com passes.
C6_DomainFilterExact ==
  (rk.pc = "done" /\ rk.userData.businessType = "online") =>
    LET Passes(item) == PassesDomainFilterTable[item]
    IN  /\ rk.filtered = SelectSeq(rk.competitorItems, Passes)
        /\ FilterExample

\* C6 witness: the analysis has filtered the catalogue list in which every
\* rule removes a candidate and the limits are met exactly by one that stays.
C6_Witness ==
  /\ rk.pc = "done"
  /\ rk.competitorItems = FilterItems
  /\ DomainsOf(rk.filtered) = <<dAcmePlumbing, dEdge, uGammaUpper, dAlpha, dAcmePlumbing>>

-----------------------------------------------------------------------------
(* Properties of the ranking.                                              *)

Ranked == rk.pc = "done" /\ rk.mode = "ranked"
RankedOnline == Ranked /\ rk.userData.businessType = "online"

\* The address fetched for the candidate at place i of the filtered list.
FetchedUrl(i) ==
  IF rk.userData.businessType = "online"
  THEN <<"h","t","t","p","s",":","/","/">> \o rk.filtered[i].domain
  ELSE rk.filtered[i].url

\* The candidate at place i was scraped, and its similarity to the services.
WasScraped(i) == PageTable[rk.world][FetchedUrl(i)].scraped
SimilarityOf(i) ==
  cosineSimilarity(getEmbedding(join(ExtractServices(user.services, 1), 1)),
                   PageTable[rk.world][FetchedUrl(i)].embedding)

\* Place i comes before place j in the similarity order (ties in filter order).
RankedBefore(i, j) ==
  \/ SimilarityGreater(SimilarityOf(i), SimilarityOf(j))
  \/ ~SimilarityGreater(SimilarityOf(j), SimilarityOf(i)) /\ i < j

\* The candidate at place i is one of the user's competitors.
IsUserSelected(i) ==
  IF rk.userData.businessType = "online"
  THEN toLowerCase(rk.filtered[i].domain) \in UserSelectedDomains(user.competitors)
  ELSE rk.filtered[i].url \in Range(user.competitors)

\* The example of the guarantee rule: A, B, C, D with similarities 0.9, 0.8,
\* 0.7 and 0.6, C user-selected, two places.
GuaranteeExample ==
  LET sorted == SortBySimilarity(ScrapedOnline(ExampleItems, <<1, 0, 0, 0>>, "up"), 1, <<>>)
      final == FinalCompetitors(sorted, {dGamma}, 2)
  IN  /\ DomainsOf(sorted) = <<dAlpha, dBeta, dGamma, dDelta>>
      /\ \A i \in 1..4 :
           /\ sorted[i].similarity.dotProduct = 10 - i
           /\ sorted[i].similarity.normA * sorted[i].similarity.normB = 100
      /\ DomainsOf(final) = <<dGamma, dAlpha>>
      /\ final[1].userSelected = "true"
      /\ final[2].userSelected = "false"

\* C2: when the domain-based ranker ranks, its output is exactly: every
\* scraped candidate whose domain is user-selected, in similarity order and
\* marked userSelected true, followed by the first max(0, 10 - number of
\* guaranteed entries) scraped candidates that are not user-selected, in
\* similarity order and marked userSelected false; and the example A, B, C, D
\* with C user-selected and two places gives C, A.
C2_GuaranteeRule ==
  /\ GuaranteeExample
  /\ RankedOnline =>
       LET out == rk.topCompetitors
           scraped == {i \in 1..Len(rk.filtered) : WasScraped(i)}
           guaranteed == {i \in scraped : IsUserSelected(i)}
           discovered == scraped \ guaranteed
           g == Cardinality(guaranteed)
           slots == IF 10 - g > 0 THEN 10 - g ELSE 0
           taken == IF Cardinality(discovered) < slots
                    THEN Cardinality(discovered) ELSE slots
           shown == {out[k].pos : k \in 1..Len(out)}
       IN  /\ Len(out) = g + taken
           /\ \A k \in 1..Len(out) :
                /\ out[k].pos \in (IF k <= g THEN guaranteed ELSE discovered)
                /\ out[k].userSelected = (IF k <= g THEN "true" ELSE "false")
                /\ out[k].domain = rk.filtered[out[k].pos].domain
                /\ out[k].hasSimilarity
                /\ out[k].similarity = SimilarityOf(out[k].pos)
           /\ \A k, l \in 1..Len(out) :
                (k < l /\ (k <= g <=> l <= g)) => RankedBefore(out[k].pos, out[l].pos)
           /\ \A k \in 1..Len(out), j \in discovered \ shown :
                k > g => RankedBefore(out[k].pos, j)

\* C2 witness: twelve scraped candidates, one of them user-selected and
\* eighth in the filtered list; it comes first and nine others follow, the
\* most similar first, so two scraped candidates are left out.
C2_Witness ==
  /\ RankedOnline
  /\ rk.competitorItems = ManyItems
  /\ Cardinality({i \in 1..Len(rk.filtered) : WasScraped(i)}) = 12
  /\ Len(rk.topCompetitors) = 10
  /\ rk.topCompetitors[1].pos = 8
  /\ rk.topCompetitors[1].userSelected = "true"
  /\ rk.topCompetitors[2].pos = 9
  /\ rk.topCompetitors[10].userSelected = "false"

\* C3: in both variants every user-selected competitor that is among the
\* filtered candidates appears in the ranked list that is returned, whatever
\* its similarity and whether or not its page could be fetched.
C3_UserSelectedIncluded ==
  Ranked =>
    \A i \in 1..Len(rk.filtered) :
      IsUserSelected(i) => \E k \in 1..Len(rk.topCompetitors) : rk.topCompetitors[k].pos = i

\* The first n candidates of the filtered list without a similarity.
FirstUnranked(n) ==
  /\ Len(rk.topCompetitors) = (IF Len(rk.filtered) < n THEN Len(rk.filtered) ELSE n)
  /\ \A k \in 1..Len(rk.topCompetitors) :
       /\ rk.topCompetitors[k].pos = k
       /\ ~rk.topCompetitors[k].hasSimilarity
       /\ IF rk.userData.businessType = "online"
          THEN rk.topCompetitors[k].domain = rk.filtered[k].domain
          ELSE rk.topCompetitors[k].url = rk.filtered[k].url

\* The services text of the user document is empty.
NoServicesText ==
  \A i \in DOMAIN user.services :
    /\ ~user.services[i].isString
    /\ user.services[i].name = <<>>
    /\ user.services[i].serviceName = <<>>
    /\ user.services[i].title = <<>>
    /\ user.services[i].description = <<>>

\* C7: whenever ranking is not performed (no services text, no user id, no
\* user record, or an error while embedding or while fetching the pages) the
\* ranker raises nothing and returns exactly the first 10 (domain-based) or 20
\* (location-based) filtered candidates in filter order without similarity.
C7_UnrankedFallback ==
  /\ rk.pc = "failed" => rk.mode = "none"
  /\ (/\ rk.pc = "done"
      /\ \/ ~rk.uidGiven
         \/ ~user.exists
         \/ NoServicesText
         \/ rk.embedding = "failsOnServices"
         \/ rk.embedding = "failsOnPages" /\ \E i \in 1..Len(rk.filtered) : WasScraped(i)
         \/ rk.world = "down" /\ rk.embedding = "up")
     => FirstUnranked(IF rk.userData.businessType = "online" THEN 10 ELSE 20)

-----------------------------------------------------------------------------
(* Properties of the competitor discovery.                                 *)

Yielded(call) == call.kind # "error" /\ Len(call.items) > 0

\* C5: in the domain-based discovery the first call is for the user's own
\* domain; user-supplied alternates are queried only after it yielded zero
\* candidates, one at a time in list order, each at most once; an alternate
\* whose address is invalid, whose call raises or which yields nothing is
\* skipped; no alternate is queried after the first one that yields a
\* candidate, and its candidates become the candidate list; when nothing
\* yields, the analysis goes on with an empty list and does not fail.
C5_DiscoveryFallback ==
  rk.userData.businessType = "online" =>
    LET calls == rk.calls
        n == Len(calls)
        competitors == rk.userData.competitors
        Valid(a) == CompetitorDomainTable[competitors[a]].ok
        asked == {calls[k].alternate : k \in 2..n}
        settled == rk.pc \in {"rank", "done"}
    IN  /\ n >= 1 => calls[1].alternate = 0
        /\ n >= 2 => calls[1].kind # "error" /\ calls[1].items = <<>>
        /\ \A k \in 2..n :
             /\ calls[k].alternate \in 1..Len(competitors)
             /\ Valid(calls[k].alternate)
             /\ calls[k].target = CompetitorDomainTable[competitors[calls[k].alternate]].domain
             /\ k < n => calls[k].alternate < calls[k + 1].alternate
             /\ k < n => ~Yielded(calls[k])
        /\ \A a \in 1..Len(competitors) :
             (Valid(a) /\ \E b \in asked : a < b) => a \in asked
        /\ settled =>
             /\ n >= 1
             /\ rk.competitorItems = calls[n].items
             /\ (rk.competitorItems = <<>> /\ Len(competitors) > 0) =>
                  asked = {a \in 1..Len(competitors) : Valid(a)}
        /\ rk.pc = "done" /\ rk.competitorItems = <<>> => rk.topCompetitors = <<>>
        /\ rk.pc = "failed" => n = 0 \/ (n = 1 /\ calls[1].kind = "error")

\* C5 witness: the own domain yields nothing, the first alternate is not an
\* address, the second raises, the third yields the candidates used, and the
\* fourth is never queried.
C5_Witness ==
  /\ rk.pc = "done"
  /\ Len(rk.userData.competitors) = 4
  /\ [k \in 1..Len(rk.calls) |-> rk.calls[k].alternate] = <<0, 2, 3>>
  /\ rk.calls[1].kind = "items"
  /\ rk.calls[2].kind = "error"
  /\ rk.calls[3].target = dDelta
  /\ rk.competitorItems = ExampleItems
  /\ Len(rk.topCompetitors) > 0

-----------------------------------------------------------------------------
(* Properties of the pipeline run and of the status record.                *)

\* What GET /seo/status answers in the current state.
StatusRecord == getSEOAnalysisStatus(user)

\* A required step of the finished run raised: the user record is missing,
\* onboarding is not completed, the business type is unknown, the competitor
\* analysis raised (a required business field is missing, the discovery
\* provider failed), or its result could not be stored.
RequiredStepRaised ==
  \/ ~user.exists
  \/ ~user.onboardingCompleted
  \/ user.businessType \notin {"local", "online"}
  \/ rk.pc = "failed"
  \/ rk.pc = "done" /\ "persist" \notin run.ran

\* The steps that follow an enrichment step in the run.
LaterSteps(step) ==
  CASE step = "intersection" -> {"targets", "ideas", "completed", "content"}
    [] step = "targets" -> {"ideas", "completed", "content"}
    [] step = "ideas" -> {"completed", "content"}
    [] OTHER -> {}

C9_SingleTerminalWrite ==
  (run.pc = "done" /\ run.raised # "") =>
    run.writes = <<StatusWrite("failed", run.raised, TRUE)>>

\* C10: the status record describes only the current run: when the status
\* is 'completed' the error is null, and when it is 'processing' the
\* completedAt and the error are null.
C10_StatusOfCurrentRun ==
  StatusRecord.found =>
    /\ StatusRecord.status = "completed" => StatusRecord.error = ""
    /\ StatusRecord.status = "processing" =>
         StatusRecord.completedAt = "unset" /\ StatusRecord.error = ""

\* The run in the current state has ended with the status 'completed'.
RunCompleted ==
  /\ run.pc = "done"
  /\ run.raised = ""
  /\ "completed" \in run.ran

\* The address or domain under which a competitor of the run is added to the
\* competitors list of the user.
ListedCompetitors ==
  { IF rk.userData.businessType = "local"
    THEN rk.topCompetitors[i].url ELSE rk.topCompetitors[i].domain :
      i \in DOMAIN rk.topCompetitors } \ {<<>>}

TerminalStatuses == {"completed", "failed"}

\* C12: start-analysis stores 'processing' before the run starts, and once
\* a run has written a terminal status ('completed' or 'failed') that status
\* stays unchanged until another analysis is started for the user: the only
\* change of a terminal status is the 'processing' of a new start.
C12_TerminalStatusStable ==
  /\ [][(run.pc \in {"idle", "done"} /\ run'.pc = "read")
          => user'.seoAnalysisStatus = "processing"]_vars
  /\ [][(user.exists /\ user'.exists /\ user.seoAnalysisStatus \in TerminalStatuses)
          => user'.seoAnalysisStatus \in {user.seoAnalysisStatus, "processing"}]_vars

-----------------------------------------------------------------------------
(* Properties of the utility functions.                                    *)

\* C13: for a batch of n texts and any order in which the provider returns
\* its n entries, each with the index of its input, getEmbedding returns n
\* vectors and position i holds the vector computed for input i.
C13_BatchOrder ==
  (pure.op = "getEmbedding" /\ pure.pc = "returned") =>
    /\ Len(pure.result) = Len(pure.input)
    /\ \A i \in DOMAIN pure.input : pure.result[i] = getEmbedding(pure.input[i])

\* C13 witness: three different texts whose entries came back in another
\* order than the inputs.
C13_Witness ==
  /\ pure.op = "getEmbedding"
  /\ pure.pc = "returned"
  /\ Len(pure.input) = MaxBatch
  /\ Cardinality(Range(pure.input)) = MaxBatch
  /\ [k \in DOMAIN pure.data |-> pure.data[k].index] = <<2, 0, 1>>

\* C14: when either embedding passed to cosineSimilarity is all-zero, every
\* caller (the ranker in both variants, the keyword intersection) records
\* the similarity 0 for that item; a NaN never reaches a ranked competitor
\* entry or a stored keyword record.
C14_ZeroEmbeddingScoresZero ==
  (pure.op = "cosineSimilarity" /\ pure.pc = "recorded") =>
    /\ ~SimilarityIsNaN(pure.recorded.similarity)
    /\ (IsZeroVector(pure.vecA) \/ IsZeroVector(pure.vecB)) =>
         pure.recorded.similarity.dotProduct = 0

\* Two computed similarities are the same number.
SameSimilarity(s, t) ==
  /\ SimilarityIsNaN(s) <=> SimilarityIsNaN(t)
  /\ SignedSquare(s) * t.normA * t.normB = SignedSquare(t) * s.normA * s.normB

NonZeroPair ==
  /\ pure.op = "cosineSimilarity"
  /\ pure.pc = "recorded"
  /\ ~IsZeroVector(pure.vecA)
  /\ ~IsZeroVector(pure.vecB)

IdeasReturned ==
  /\ pure.op = "generateKeywordIdeas"
  /\ pure.pc = "returned"

\* The points of the rubric for the volume, the CPC (in tenths) and the
\* intent of a keyword, and the points a difficulty can give.
RubricVolume(v) ==
  CASE v >= 10000 -> 40 [] v >= 5000 /\ v < 10000 -> 30 [] v >= 1000 /\ v < 5000 -> 20
    [] v >= 500 /\ v < 1000 -> 10 [] OTHER -> 5
RubricCpc(c) ==
  CASE c >= 50 -> 20 [] c >= 20 /\ c < 50 -> 15 [] c >= 10 /\ c < 20 -> 10
    [] c >= 5 /\ c < 10 -> 5 [] OTHER -> 0
RubricIntent(t) ==
  CASE t = "transactional" -> 10 [] t = "commercial" -> 8 [] t = "navigational" -> 5
    [] OTHER -> 3
RubricDifficultyPoints == {30, 20, 10, 5}

\* C15: the opportunity score of every keyword is the sum of the four
\* bucketed sub-scores (volume 40/30/20/10/5, difficulty 30/20/10/5, CPC
\* 20/15/10/5/0, intent 10/8/5/3), so it is an integer in [0, 100]; for
\* volume 12000, difficulty 20, cpc 6 and intent transactional it is 100.
C15_OpportunityScore ==
  IdeasReturned =>
    \A i \in DOMAIN pure.keywordIdeas :
      LET kw == pure.keywordIdeas[i]
          item == pure.items[i]
      IN  /\ kw.opportunity_score
               - RubricVolume(kw.search_volume) - RubricCpc(kw.cpc)
               - RubricIntent(kw.search_intent) \in RubricDifficultyPoints
          /\ kw.opportunity_score \in 0..100
          /\ (/\ item.search_volume = Num(12000)
              /\ item.keyword_difficulty = Num(20)
              /\ item.cpc = Num(60)
              /\ item.main_intent = "transactional") => kw.opportunity_score = 100

\* C15 witness: the keyword with volume 12000, difficulty 20, cpc 6 and
\* intent transactional has been scored 100.
C15_Witness ==
  /\ IdeasReturned
  /\ pure.items = <<IdeaItem(kwSeo, Num(12000), Num(20), Num(60), "transactional")>>
  /\ pure.keywordIdeas[1].opportunity_score = 100

\* The volumes a keyword of the catalogue can have.
ScoredVolumes == {OrZero(v) : v \in IdeaVolumes}

\* C16: the opportunity score is monotonic in the volume: of two keywords
\* that differ only in search volume, the one with the larger volume never
\* has the smaller score.
C16_MonotonicInVolume ==
  IdeasReturned =>
    \A i \in DOMAIN pure.keywordIdeas : \A v \in ScoredVolumes :
      LET kw == pure.keywordIdeas[i]
          other == [kw EXCEPT !.search_volume = v]
      IN  v >= kw.search_volume => OpportunityScore(other) >= kw.opportunity_score

\* C16 witness: a scored keyword of volume 4999 whose score is smaller than
\* the one it would have with volume 5000.
C16_Witness ==
  /\ IdeasReturned
  /\ Len(pure.keywordIdeas) = 1
  /\ pure.keywordIdeas[1].search_volume = 4999
  /\ OpportunityScore([pure.keywordIdeas[1] EXCEPT !.search_volume = 5000])
       > pure.keywordIdeas[1].opportunity_score

BucketNames ==
  {"high_priority_opportunities", "high_volume_opportunities",
   "commercial_opportunities", "low_competition_opportunities",
   "high_value_opportunities", "content_opportunities",
   "quick_win_opportunities", "long_tail_opportunities"}

\* The predicate and the sort key of every bucket.
Qualifies(name, k) ==
  CASE name = "high_priority_opportunities" ->
         k.opportunity_score >= 70 /\ k.search_volume >= 1000
    [] name = "high_volume_opportunities" -> k.search_volume >= 5000
    [] name = "commercial_opportunities" ->
         k.search_intent \in {"commercial", "transactional"}
    [] name = "low_competition_opportunities" ->
         k.difficulty < 30 /\ k.search_volume >= 500
    [] name = "high_value_opportunities" -> k.cpc >= 10 /\ k.search_volume >= 500
    [] name = "content_opportunities" ->
         k.search_intent = "informational" /\ k.search_volume >= 500
    [] name = "quick_win_opportunities" ->
         k.difficulty < 40 /\ k.search_volume >= 1000 /\ k.search_volume < 5000
    [] OTHER ->
         /\ Len(SelectSeq(k.keyword, LAMBDA ch : ch = " ")) >= 3
         /\ k.search_volume >= 100 /\ k.search_volume < 1000

SortKey(name, k) ==
  CASE name \in {"high_priority_opportunities", "commercial_opportunities",
                 "quick_win_opportunities"} -> k.opportunity_score
    [] name = "high_value_opportunities" -> k.cpc * k.search_volume
    [] OTHER -> k.search_volume

\* C17: each of the eight buckets is the first 50 of the keywords that
\* satisfy its predicate, sorted descending by its key, whatever the other
\* buckets hold: it has at most 50 entries, every entry is a keyword of the
\* input that satisfies the predicate, no excluded qualifying keyword has a
\* strictly larger key than an included one, the input list is not
\* reordered, and a keyword that satisfies several predicates is in each
\* such bucket (volume 6000 with intent commercial is in both
\* high_volume_opportunities and commercial_opportunities).
C17_Buckets ==
  IdeasReturned =>
    LET K == pure.keywordIdeas
    IN  /\ \A i \in DOMAIN K : K[i].pos = i /\ K[i].keyword = pure.items[i].keyword
        /\ \A name \in BucketNames :
             LET B == pure.top_opportunities[name]
                 included == {B[j].pos : j \in DOMAIN B}
                 qualifying == {i \in DOMAIN K : Qualifies(name, K[i])}
             IN  /\ Len(B) <= 50
                 /\ Cardinality(included) = Len(B)
                 /\ included \subseteq qualifying
                 /\ \A j \in DOMAIN B : B[j] = K[B[j].pos]
                 /\ \A j \in DOMAIN B : \A l \in DOMAIN B :
                      j < l => SortKey(name, B[j]) >= SortKey(name, B[l])
                 /\ \A q \in qualifying \ included :
                      /\ Len(B) = 50
                      /\ \A j \in DOMAIN B : SortKey(name, K[q]) <= SortKey(name, B[j])
        /\ \A i \in DOMAIN K :
             (K[i].search_volume = 6000 /\ K[i].search_intent = "commercial"
              /\ Len(K) <= 50) =>
               /\ \E j \in DOMAIN pure.top_opportunities.high_volume_opportunities :
                    pure.top_opportunities.high_volume_opportunities[j].pos = i
               /\ \E j \in DOMAIN pure.top_opportunities.commercial_opportunities :
                    pure.top_opportunities.commercial_opportunities[j].pos = i

\* C17 witness: a list of more than 50 keywords that all have a volume of
\* 5000 or more: the bucket of the high volumes is full, a qualifying
\* keyword is left out of it, and one of its keywords is in the bucket of
\* the commercial keywords too.
C17_Witness ==
  /\ IdeasReturned
  /\ Len(pure.keywordIdeas) > 50
  /\ Len(pure.top_opportunities.high_volume_opportunities) = 50
  /\ \A i \in DOMAIN pure.keywordIdeas : pure.keywordIdeas[i].search_volume >= 5000
  /\ \E j \in DOMAIN pure.top_opportunities.high_volume_opportunities,
        l \in DOMAIN pure.top_opportunities.commercial_opportunities :
        pure.top_opportunities.high_volume_opportunities[j].pos
          = pure.top_opportunities.commercial_opportunities[l].pos

\* C18: scrapeWebsiteWithJina never raises: for every outcome of the request
\* (success, another HTTP status, network exception, failure while reading
\* the body) it returns the page text or null, and a null never aborts the
\* ranking that called it: the page counts as not scraped with similarity 0.
C18_FetchNeverRaises ==
  (pure.op = "scrapeWebsiteWithJina" /\ pure.pc \in {"fetched", "used"}) =>
    /\ ~pure.scrape.raised
    /\ pure.scrape.value = IF pure.outcome = "ok" THEN Text(pure.body) ELSE NullText
    /\ pure.pc = "used" =>
         /\ ~pure.result.aborted
         /\ pure.scrape.value.isNull =>
              ~pure.result.scraped /\ pure.result.similarity = "zero"

\* C18 witness: the body of an answer could not be read, the scraper gave
\* null and the ranking went on with the page as not scraped.
C18_Witness ==
  /\ pure.op = "scrapeWebsiteWithJina"
  /\ pure.pc = "used"
  /\ pure.outcome = "body"
  /\ pure.scrape.value.isNull
  /\ ~pure.result.scraped

\* The keyword records of the stored intersection documents of one kind.
StoredRecords(docs) ==
  UNION {Range(docs[c].keywords) : c \in {d \in Competitors : docs[d].exists}}

\* C19: while the intersection documents are being extracted, in the shared
\* and in the unique documents a stored keyword record has targeted = true
\* exactly when its keyword text is equal to a member of the target keyword
\* list the user had when the extraction started.
C19_TargetedIffRecorded ==
  ~gtk.ran =>
    \A kw \in StoredRecords(sharedDocs) \cup StoredRecords(uniqueDocs) :
      kw.targeted <=> (kw.keyword \in Range(targetKeywords))

\* C19 witness: a shared and a unique document are stored, with a targeted
\* record in each and a record that differs from a target keyword by its
\* case only, which is not targeted.
C19_Witness ==
  /\ ~gtk.ran
  /\ \E kw \in StoredRecords(sharedDocs) : kw.targeted
  /\ \E kw \in StoredRecords(uniqueDocs) : kw.targeted
  /\ \E kw \in StoredRecords(sharedDocs) :
       /\ ~kw.targeted
       /\ kw.keyword \notin Range(targetKeywords)
       /\ toLowerCase(kw.keyword) \in Range(targetKeywords)

\* A fraction is at most another one (denominators of either sign).
FracAtMost(a, b) ==
  IF a.den * b.den > 0 THEN a.num * b.den <= b.num * a.den
  ELSE a.num * b.den >= b.num * a.den

\* C21: normalize(v, min, max) returns exactly 0 when min = max, for every v;
\* otherwise it returns 0 at v = min and 1 at v = max and is non-decreasing
\* in v between them.
C21_Normalize ==
  (pure.op = "normalize" /\ pure.pc = "returned" /\ IsNum(pure.min) /\ IsNum(pure.max)) =>
    IF pure.min = pure.max
    THEN pure.r1 = Frac(0, 1) /\ pure.r2 = Frac(0, 1)
    ELSE /\ ~pure.r1.nan /\ ~pure.r2.nan
         /\ pure.v1 = pure.min.v => pure.r1.num = 0
         /\ pure.v2 = pure.max.v => pure.r2.num = pure.r2.den
         /\ (pure.min.v <= pure.v1 /\ pure.v2 <= pure.max.v) =>
              FracAtMost(pure.r1, pure.r2)

\* C21 witness: with different limits the function was applied to the lower
\* limit and to the upper limit.
C21_Witness ==
  /\ pure.op = "normalize"
  /\ pure.pc = "returned"
  /\ IsNum(pure.min) /\ IsNum(pure.max)
  /\ pure.min # pure.max
  /\ pure.v1 = pure.min.v
  /\ pure.v2 = pure.max.v
  /\ pure.r1.num = 0
  /\ pure.r2.num = pure.r2.den

-----------------------------------------------------------------------------
(* Properties of the ranking with pages that could not be fetched.         *)

\* The number of places of the returned list.
TopN == IF rk.userData.businessType = "online" THEN TopNOnline ELSE TopNLocal

\* C22: a candidate whose page fetch fails or returns empty text is kept and
\* not dropped: it remains eligible for the returned list, so when fewer than
\* topN candidates were scraped the returned list holds every scraped
\* candidate and its remaining places are filled by unscraped candidates.
C22_UnscrapedStaysEligible ==
  Ranked =>
    LET candidates == 1..Len(rk.filtered)
        scraped == {i \in candidates : WasScraped(i)}
        shown == {rk.topCompetitors[k].pos : k \in 1..Len(rk.topCompetitors)}
    IN  Cardinality(scraped) < TopN =>
          /\ scraped \subseteq shown
          /\ Cardinality(shown) =
               (IF Len(rk.filtered) < TopN THEN Len(rk.filtered) ELSE TopN)

\* C23: when the embedding call for one candidate's page text fails, only
\* that candidate's similarity degrades to 0: the similarity-ranked list is
\* still returned, the candidate is in it with similarity 0 and the other
\* scraped candidates keep their computed similarities.
C23_EmbeddingFailureDegradesOne ==
  (/\ rk.pc = "done"
   /\ rk.embedding = "failsOnOnePage"
   /\ \E i \in 1..Len(rk.filtered) : WasScraped(i)) =>
    LET out == rk.topCompetitors
        scraped == {i \in 1..Len(rk.filtered) : WasScraped(i)}
        rejected == CHOOSE i \in scraped : \A j \in scraped : i <= j
    IN  /\ rk.mode = "ranked"
        /\ \A k \in 1..Len(out) :
             /\ out[k].hasSimilarity
             /\ out[k].similarity = (IF out[k].pos = rejected THEN ZeroSimilarity
                                     ELSE SimilarityOf(out[k].pos))

-----------------------------------------------------------------------------
(* Properties of the similarity scoring of the unique keywords.            *)

\* The start (from 0) of the chunk that holds the keyword at place index.
ChunkStartOf(index) == ((index - 1) \div ChunkSize) * ChunkSize

\* C24: the keywords are embedded in consecutive chunks of at most 2000; if
\* the embedding call of a chunk fails, exactly the keywords of that chunk
\* get a null score, every keyword of every other chunk gets the similarity
\* computed from its own embedding, and the unique document is still written.
C24_ChunkFailureIsolated ==
  pure.op = "keywordSimilarity" =>
    /\ pure.pc = "embed" =>
         /\ pure.i % ChunkSize = 0
         /\ Len(pure.allEmbeddings) =
              (IF pure.i < Len(pure.validKeywords) THEN pure.i
               ELSE Len(pure.validKeywords))
    /\ pure.pc \in {"scored", "written"} =>
         /\ Len(pure.keywordsWithSimilarity) = Len(pure.validKeywords)
         /\ \A index \in 1..Len(pure.validKeywords) :
              LET kw == pure.keywordsWithSimilarity[index]
              IN  /\ kw.keyword = pure.validKeywords[index]
                  /\ kw.similarityToServices =
                       (IF ChunkStartOf(index) \in pure.failedChunks THEN null
                        ELSE VectorSimilarity(KeywordVector(kw.keyword)))
    /\ pure.pc = "written" => pure.written

\* C24 witness: of three chunks the second failed, the last being shorter
\* than 2000, and the document was written with null scores for exactly the
\* keywords 2001..4000.
C24_Witness ==
  /\ pure.op = "keywordSimilarity"
  /\ pure.pc = "written"
  /\ pure.written
  /\ Len(pure.validKeywords) = 2 * ChunkSize + 1
  /\ pure.failedChunks = {ChunkSize}
  /\ pure.keywordsWithSimilarity[ChunkSize].similarityToServices # null
  /\ pure.keywordsWithSimilarity[ChunkSize + 1].similarityToServices = null
  /\ pure.keywordsWithSimilarity[2 * ChunkSize].similarityToServices = null
  /\ pure.keywordsWithSimilarity[2 * ChunkSize + 1].similarityToServices # null

-----------------------------------------------------------------------------
(* Properties of the batches of the location-based ranking.                *)

\* C25: in the location-based ranking at most 20 page fetches are in flight
\* at any time, no fetch of the next batch starts before every fetch and
\* every embedding call of the batch before it has completed, and the
\* results are collected in candidate order.
C25_BatchedFetches ==
  pure.op = "localBatches" =>
    /\ pure.fetching <= BatchSize
    /\ pure.pc = "loop" => pure.fetching = 0 /\ pure.embedding = 0
    /\ pure.fetching + pure.embedding <=
         (IF pure.i < pure.n THEN Len(BatchAt(pure.n, pure.i)) ELSE 0)
    /\ pure.competitorAnalysis =
         [k \in 1..(IF pure.i < pure.n THEN pure.i ELSE pure.n) |-> k]

\* C25 witness: the second batch is in flight, with fetches and embedding
\* calls pending, after the twenty results of the first were collected.
C25_Witness ==
  /\ pure.op = "localBatches"
  /\ pure.pc = "awaiting"
  /\ pure.i = BatchSize
  /\ pure.n = 2 * BatchSize
  /\ pure.fetching = BatchSize - 1
  /\ pure.embedding = 1
  /\ Len(pure.competitorAnalysis) = BatchSize

-----------------------------------------------------------------------------
(* Properties of the difficulty of a keyword idea.                         *)

\* The difficulties the provider reports in the catalogue.
KnownDifficulties == {d.v : d \in {x \in IdeaDifficulties : IsNum(x)}}

\* The keyword at place i of the returned list is in the bucket.
InBucket(bucket, i) == \E j \in DOMAIN bucket : bucket[j].pos = i

\* C26: lower difficulty is never worse: of two keywords that differ only in
\* their known difficulty, the one with the lower difficulty never has the
\* lower score; a keyword with known difficulty 0 receives the 30 difficulty
\* points and passes the difficulty test of the low-competition and of the
\* quick-win bucket.
C26_LowerDifficultyNeverWorse ==
  IdeasReturned =>
    \A i \in DOMAIN pure.keywordIdeas :
      LET item == pure.items[i]
          kw == pure.keywordIdeas[i]
          With(d) == KeywordIdea([item EXCEPT !.keyword_difficulty = Num(d)], i)
      IN  IsNum(item.keyword_difficulty) =>
            /\ \A d \in KnownDifficulties :
                 d > item.keyword_difficulty.v =>
                   kw.opportunity_score >= OpportunityScore(With(d))
            /\ (item.keyword_difficulty.v = 0 /\ Len(pure.items) = 1) =>
                 /\ DifficultyScore(kw) = 30
                 /\ kw.search_volume >= 500 =>
                      InBucket(pure.top_opportunities.low_competition_opportunities, i)
                 /\ (kw.search_volume >= 1000 /\ kw.search_volume < 5000) =>
                      InBucket(pure.top_opportunities.quick_win_opportunities, i)

-----------------------------------------------------------------------------
(* Properties of the blog post generation.                                 *)

\* C27: marking a title as generating prevents duplicate generation: two
\* calls of generateBlogPost of one user never work on the same title, each
\* title yields at most one article, and the write of one call never undoes
\* a created or generating mark written by the other.
C27_NoDuplicateGeneration ==
  /\ [](pure.op = "generateBlogPost" =>
          /\ \A p, q \in Callers :
               (/\ p # q
                /\ pure.calls[p].pc # "idle"
                /\ pure.calls[q].pc # "idle") =>
                 pure.calls[p].index # pure.calls[q].index
          /\ \A a, b \in DOMAIN pure.articles :
               pure.articles[a].titleIndex = pure.articles[b].titleIndex => a = b)
  /\ [][pure.op = "generateBlogPost" =>
          \A t \in 1..NumTitles :
            /\ pure.titles[t].created => pure'.titles[t].created
            /\ (pure.titles[t].generating /\ ~pure'.titles[t].generating) =>
                 pure'.titles[t].created]_vars

-----------------------------------------------------------------------------
(* Properties of the scores of the target keyword selection.               *)

\* A score is a defined number of [0, 1].
InUnitInterval(score) ==
  /\ ~score.nan
  /\ score.den > 0
  /\ 0 <= score.num
  /\ score.num <= score.den

\* C28: in the target keyword selection, for every candidate of the pool
\* (also one whose search volume or competition is 0 or missing, and in a
\* pool without any positive volume or competition) the normalized volume
\* and the normalized competition lie in [0, 1], and every composite score
\* is a defined number of [0, 1].
C28_ScoresInUnitInterval ==
  (gtk.ran /\ Len(gtk.allKeywords) > 0) =>
    LET pool == gtk.allKeywords
        searchVolumes == {v \in {pool[i].searchVolume : i \in DOMAIN pool} : v > 0}
        competitions == {c \in {pool[i].competition : i \in DOMAIN pool} : c > 0}
    IN  /\ \A i \in DOMAIN pool :
             /\ InUnitInterval(normalize(pool[i].searchVolume,
                                         MathMin(searchVolumes), MathMax(searchVolumes)))
             /\ InUnitInterval(normalize(pool[i].competition,
                                         MathMin(competitions), MathMax(competitions)))
        /\ \A k \in DOMAIN gtk.scoredKeywords :
             InUnitInterval(gtk.scoredKeywords[k].compositeScore)

-----------------------------------------------------------------------------
(* Properties of the user-selected competitors across runs.                *)

\* The competitors the user supplied: no step of the pipeline changes the
\* business, the business type or the services of the document, which tell
\* the document it started from.
SuppliedCompetitors ==
  UNION {Range(u.competitors) :
           u \in {v \in PipelineUsers : /\ v.business = user.business
                                        /\ v.businessType = user.businessType
                                        /\ v.services = user.services}}

\* C29: across any sequence of runs for an online business, a competitor is
\* marked userSelected true and placed in the guaranteed group only if it
\* matches a domain the user supplied; a competitor that was discovered
\* and stored by an earlier run is not user-selected for a later run.
C29_UserSelectedIsSupplied ==
  (rk.pc = "done" /\ rk.mode = "ranked" /\ rk.userData.businessType = "online"
     /\ user.exists) =>
    \A k \in 1..Len(rk.topCompetitors) :
      rk.topCompetitors[k].userSelected = "true" =>
        toLowerCase(rk.topCompetitors[k].domain) \in
          {SelectedDomainTable[c] : c \in SuppliedCompetitors}

-----------------------------------------------------------------------------
(* Properties of the targeted mark once a target set is stored.            *)

\* C30: once generateTargetKeywords has stored a target keyword set, a stored
\* keyword record of any shared or unique intersection document has targeted
\* = true if and only if its keyword text is a member of the stored set; no
\* record stays targeted for a keyword that left the set.
C30_TargetedMatchesStoredSet ==
  (gtk.ran /\ Len(gtk.allKeywords) > 0) =>
    \A kw \in StoredRecords(sharedDocs) \cup StoredRecords(uniqueDocs) :
      kw.targeted <=> (kw.keyword \in Range(targetKeywords))

=============================================================================
